---- MODULE Spec2Model ----
(***************************************************************************)
(* A model of the geom2 2D geometry kernel (agerasev/geom2).               *)
(*                                                                         *)
(* All operations of the library are pure functions of small values.  A    *)
(* state of the model is one call: `arg` holds the operands, `op` the      *)
(* operation that has been applied ("init" before the call) and `out` its  *)
(* result.  Every specification draws its operands from a bounded set in   *)
(* its initial condition and has one action per operation.                 *)
(*                                                                         *)
(* Scalars are exact rationals <<n, d>> (d > 0, in lowest terms) instead   *)
(* of f32: rounding error is not modelled, so two values are "equal        *)
(* within tolerance" in the model exactly when they are equal, and every   *)
(* comparison against EPS is made exactly.                                 *)
(***************************************************************************)
EXTENDS Integers, Sequences, FiniteSets, TLC

VARIABLES op, arg, out

vars == <<op, arg, out>>

(***************************************************************************)
(* Bounds of the operand sets.                                             *)
(***************************************************************************)
MaxX == 2
MaxY == 1
MaxLen == 3

(***************************************************************************)
(* Exact rational arithmetic.                                              *)
(***************************************************************************)
IAbs(i) == IF i < 0 THEN -i ELSE i

RECURSIVE GCD(_, _)
GCD(a, b) == IF b = 0 THEN a ELSE GCD(b, a % b)

Rat(n, d) ==
    LET s == IF d < 0 THEN -1 ELSE 1
        g == GCD(IAbs(n), IAbs(d))
    IN  <<(s * n) \div g, (s * d) \div g>>

I2R(i) == <<i, 1>>
Zero == <<0, 1>>
One == <<1, 1>>
Half == <<1, 2>>

\* Sums go over the least common denominator and products cancel crosswise,
\* so that the intermediate integers stay small.
RAdd(a, b) ==
    LET g == GCD(a[2], b[2]) IN
    Rat(a[1] * (b[2] \div g) + b[1] * (a[2] \div g), (a[2] \div g) * b[2])
RNeg(a) == <<-a[1], a[2]>>
RSub(a, b) == RAdd(a, RNeg(b))
RMul(a, b) ==
    LET g1 == GCD(IAbs(a[1]), b[2])
        g2 == GCD(IAbs(b[1]), a[2])
    IN  Rat((a[1] \div g1) * (b[1] \div g2), (a[2] \div g2) * (b[2] \div g1))
RInv(a) == IF a[1] < 0 THEN <<-a[2], -a[1]>> ELSE <<a[2], a[1]>>
RDiv(a, b) == RMul(a, RInv(b))
RAbs(a) == <<IAbs(a[1]), a[2]>>
\* a < b: by the integer parts, and by the fractional parts if those agree.
RLt(a, b) ==
    LET fa == a[1] \div a[2]
        fb == b[1] \div b[2]
        g == GCD(a[2], b[2])
    IN  IF fa /= fb THEN fa < fb
        ELSE (a[1] % a[2]) * (b[2] \div g) < (b[1] % b[2]) * (a[2] \div g)
RLe(a, b) == ~RLt(b, a)
RMin(a, b) == IF RLe(a, b) THEN a ELSE b
RMax(a, b) == IF RLe(a, b) THEN b ELSE a

\* f32::signum: 1.0 for every value that is positive or +0.0, -1.0 for a
\* negative one.  The model has no negative zero: its zero is +0.0.
Signum(a) == IF a[1] >= 0 THEN 1 ELSE -1

(***************************************************************************)
(* The tolerance EPS = 1e-8 = 1 / EpsInv, and exact comparisons with it.   *)
(***************************************************************************)
EpsInv == 100000000

\* a > EPS, i.e. n * EpsInv > d
GtEps(a) == a[1] > a[2] \div EpsInv
\* a < EPS, i.e. n * EpsInv < d
LtEps(a) == a[1] <= (a[2] - 1) \div EpsInv
\* (-EPS..=(1.0 + EPS)).contains(&u)
InUnitEps(u) == ~GtEps(RNeg(u)) /\ ~GtEps(RSub(u, One))

(***************************************************************************)
(* glam::Vec2 over the rationals.                                          *)
(***************************************************************************)
Vec(x, y) == <<I2R(x), I2R(y)>>
VZero == Vec(0, 0)
VAdd(a, b) == <<RAdd(a[1], b[1]), RAdd(a[2], b[2])>>
VSub(a, b) == <<RSub(a[1], b[1]), RSub(a[2], b[2])>>
VScale(a, k) == <<RMul(a[1], k), RMul(a[2], k)>>
VNeg(a) == <<RNeg(a[1]), RNeg(a[2])>>
Dot(a, b) == RAdd(RMul(a[1], b[1]), RMul(a[2], b[2]))
\* a.perp_dot(b) = a.x * b.y - a.y * b.x
PerpDot(a, b) == RSub(RMul(a[1], b[2]), RMul(a[2], b[1]))
\* a.perp() = (-a.y, a.x)
Perp(a) == <<RNeg(a[2]), a[1]>>
LengthSquared(a) == Dot(a, a)
\* a.abs().max_element()
MaxAbs(a) == RMax(RAbs(a[1]), RAbs(a[2]))
\* Vec2::lerp(a, b, t) = a + (b - a) * t
Lerp(a, b, t) == VAdd(a, VScale(VSub(b, a), t))

\* The integer square root (floor), by bisection on lo..hi.
RECURSIVE ISqrtIn(_, _, _)
ISqrtIn(n, lo, hi) ==
    IF lo >= hi THEN lo
    ELSE LET mid == (lo + hi + 1) \div 2 IN
         IF mid * mid <= n THEN ISqrtIn(n, mid, hi) ELSE ISqrtIn(n, lo, mid - 1)
ISqrt(n) == ISqrtIn(n, 0, IF n < 46340 THEN n ELSE 46340)
IsSquare(a) == ISqrt(a[1]) * ISqrt(a[1]) = a[1] /\ ISqrt(a[2]) * ISqrt(a[2]) = a[2]
\* f32::sqrt.  It is exact on the squares of rationals; the operands of every
\* specification are chosen so that no other root is ever taken.
RSqrt(a) == <<ISqrt(a[1]), ISqrt(a[2])>>
Length(a) == RSqrt(LengthSquared(a))
\* a.normalize() = a / a.length()
Normalize(a) == VScale(a, RInv(Length(a)))

\* Option<T>: None is the empty tuple, Some(x) the one-element tuple.
None == <<>>
Some(x) == <<x>>
\* A call that does not return: Option::unwrap on None.
Panic == <<"panic">>
IsSome(o) == o /= None /\ o /= Panic
Unwrap(o) == o[1]

(***************************************************************************)
(* src/line.rs: Line and LineSegment are pairs of points <<p0, p1>>.       *)
(***************************************************************************)
LineIsDegenerate(l) == LtEps(MaxAbs(VSub(l[2], l[1])))

LineIsNear(l, point) ==
    LET r == VSub(l[2], l[1]) IN
    IF LtEps(MaxAbs(r))
    THEN LtEps(MaxAbs(VSub(point, l[1])))
    ELSE LtEps(RAbs(PerpDot(r, VSub(point, l[1]))))

SegmentIsNear(l, point) ==
    LET r == VSub(l[2], l[1]) IN
    IF LtEps(MaxAbs(r))
    THEN LtEps(MaxAbs(VSub(point, l[1])))
    ELSE IF GtEps(RAbs(PerpDot(r, VSub(point, l[1]))))
         THEN FALSE
         ELSE LET dot == Dot(VSub(point, l[1]), r) IN
              /\ ~GtEps(RNeg(dot))
              /\ ~GtEps(RSub(dot, LengthSquared(r)))

\* Mutant of LineIntersectLine: lines that do not cross never intersect.
LineIntersectLine_CrossingOnly(self, other) ==
    IF GtEps(RAbs(PerpDot(VSub(self[2], self[1]), VSub(other[2], other[1]))))
    THEN Some(Lerp(self[1], self[2],
                   RDiv(PerpDot(VSub(other[1], self[1]), VSub(other[2], other[1])),
                        PerpDot(VSub(self[2], self[1]), VSub(other[2], other[1])))))
    ELSE None

\* impl Intersect<Line> for Line
LineIntersectLine(self, other) ==
    LET p == self[1]
        q == other[1]
        r == VSub(self[2], self[1])
        s == VSub(other[2], other[1])
        pq == VSub(q, p)
        den == PerpDot(r, s)
        pqr == PerpDot(pq, r)
        pqs == PerpDot(pq, s)
    IN  IF GtEps(RAbs(den))
        THEN Some(Lerp(self[1], self[2], RDiv(pqs, den)))
        ELSE CASE GtEps(MaxAbs(r)) /\ GtEps(MaxAbs(s)) ->
                    IF LtEps(RAbs(pqs)) THEN Some(p) ELSE None
               [] ~GtEps(MaxAbs(r)) /\ GtEps(MaxAbs(s)) ->
                    IF LtEps(RAbs(pqs)) THEN Some(p) ELSE None
               [] GtEps(MaxAbs(r)) /\ ~GtEps(MaxAbs(s)) ->
                    IF LtEps(RAbs(pqr)) THEN Some(q) ELSE None
               [] OTHER ->
                    IF LtEps(MaxAbs(pq)) THEN Some(p) ELSE None

\* impl Intersect<Line> for LineSegment
SegmentIntersectLine(self, other) ==
    LET p == self[1]
        q == other[1]
        r == VSub(self[2], self[1])
        s == VSub(other[2], other[1])
        pq == VSub(q, p)
        den == PerpDot(r, s)
        pqr == PerpDot(pq, r)
        pqs == PerpDot(pq, s)
    IN  IF GtEps(RAbs(den))
        THEN LET u == RDiv(pqs, den) IN
             IF InUnitEps(u) THEN Some(Lerp(self[1], self[2], u)) ELSE None
        ELSE CASE GtEps(MaxAbs(r)) /\ GtEps(MaxAbs(s)) ->
                    IF LtEps(RAbs(pqs)) THEN Some(VAdd(p, VScale(r, Half))) ELSE None
               [] ~GtEps(MaxAbs(r)) /\ GtEps(MaxAbs(s)) ->
                    IF LtEps(RAbs(pqs)) THEN Some(p) ELSE None
               [] GtEps(MaxAbs(r)) /\ ~GtEps(MaxAbs(s)) ->
                    IF /\ LtEps(RAbs(pqr))
                       /\ InUnitEps(RDiv(Dot(pq, r), LengthSquared(r)))
                    THEN Some(q) ELSE None
               [] OTHER ->
                    IF LtEps(MaxAbs(pq)) THEN Some(p) ELSE None

\* impl Intersect<LineSegment> for Line
LineIntersectSegment(self, other) == SegmentIntersectLine(other, self)

\* Mutant of SegmentIntersectSegment: the crossing point is accepted on the
\* parameter along `self` alone.
SegmentIntersectSegment_OnlyU(self, other) ==
    LET r == VSub(self[2], self[1])
        s == VSub(other[2], other[1])
        pq == VSub(other[1], self[1])
        den == PerpDot(r, s)
    IN  IF GtEps(RAbs(den))
        THEN LET u == RDiv(PerpDot(pq, s), den) IN
             IF InUnitEps(u) THEN Some(Lerp(self[1], self[2], u)) ELSE None
        ELSE None

\* Mutant of Overlap: the start of the overlapping region, not its midpoint.
Overlap_Start(self, r, t_min, t_max) ==
    IF GtEps(RNeg(t_max)) \/ GtEps(RSub(t_min, One))
    THEN None
    ELSE Some(VAdd(self[1], VScale(r, RMax(t_min, Zero))))

\* The collinear branch of LineSegment::intersect(LineSegment): t_min and
\* t_max are the parameters of the other segment's ends along `self`.
Overlap(self, r, t_min, t_max) ==
    IF GtEps(RNeg(t_max)) \/ GtEps(RSub(t_min, One))
    THEN None
    ELSE LET overlap_start == RMax(t_min, Zero)
             overlap_end == RMin(t_max, One)
             t_mid == RMul(RAdd(overlap_start, overlap_end), Half)
         IN  Some(VAdd(self[1], VScale(r, t_mid)))

\* impl Intersect<LineSegment> for LineSegment
SegmentIntersectSegment(self, other) ==
    LET p == self[1]
        q == other[1]
        r == VSub(self[2], self[1])
        s == VSub(other[2], other[1])
        pq == VSub(q, p)
        den == PerpDot(r, s)
        pqr == PerpDot(pq, r)
        pqs == PerpDot(pq, s)
    IN  IF GtEps(RAbs(den))
        THEN LET u == RDiv(pqs, den)
                 v == RDiv(pqr, den)
             IN  IF InUnitEps(u) /\ InUnitEps(v)
                 THEN Some(Lerp(self[1], self[2], u))
                 ELSE None
        ELSE CASE GtEps(MaxAbs(r)) /\ GtEps(MaxAbs(s)) ->
                    IF LtEps(RAbs(pqr))
                    THEN Overlap(self, r,
                                 RMin(RDiv(Dot(pq, r), LengthSquared(r)),
                                      RDiv(Dot(VAdd(pq, s), r), LengthSquared(r))),
                                 RMax(RDiv(Dot(pq, r), LengthSquared(r)),
                                      RDiv(Dot(VAdd(pq, s), r), LengthSquared(r))))
                    ELSE None
               [] ~GtEps(MaxAbs(r)) /\ GtEps(MaxAbs(s)) ->
                    IF /\ LtEps(RAbs(pqs))
                       /\ InUnitEps(RDiv(RNeg(Dot(pq, s)), LengthSquared(s)))
                    THEN Some(p) ELSE None
               [] GtEps(MaxAbs(r)) /\ ~GtEps(MaxAbs(s)) ->
                    IF /\ LtEps(RAbs(pqr))
                       /\ InUnitEps(RDiv(Dot(pq, r), LengthSquared(r)))
                    THEN Some(q) ELSE None
               [] OTHER ->
                    IF LtEps(MaxAbs(pq)) THEN Some(p) ELSE None

\* A.intersect(B) for A, B each a Line ("line") or a LineSegment ("segment").
Intersect(ka, a, kb, b) ==
    CASE ka = "line" /\ kb = "line" -> LineIntersectLine(a, b)
      [] ka = "segment" /\ kb = "line" -> SegmentIntersectLine(a, b)
      [] ka = "line" /\ kb = "segment" -> LineIntersectSegment(a, b)
      [] OTHER -> SegmentIntersectSegment(a, b)

(***************************************************************************)
(* Operands: points of the integer grid.                                   *)
(***************************************************************************)
GridPoints == {Vec(x, y) : x \in 0..MaxX, y \in 0..MaxY}
GridPairs == GridPoints \X GridPoints

NoResult == <<"none yet">>

(***************************************************************************)
(* SpecLine: the four line/segment intersections, each evaluated in both   *)
(* operand orders.                                                         *)
(***************************************************************************)
\* (1 + EPS / 2, 1): a point within EPS of (1, 1)
NearOne == <<Rat(2 * EpsInv + 1, 2 * EpsInv), One>>

\* Pairs beyond the grid: the collinear segments of the tests, and pairs of
\* points that are distinct but coincide within EPS.
TestPairs ==
    { <<Vec(2, 0), Vec(3, 0)>>, <<Vec(1, 0), Vec(3, 0)>>, <<Vec(3, 0), Vec(0, 0)>>,
      <<Vec(0, 0), Vec(4, 0)>>, <<Vec(1, 1), NearOne>>, <<NearOne, Vec(1, 1)>> }

LinePairs == GridPairs \cup TestPairs

InitLine ==
    /\ op = "init"
    /\ arg \in [a : LinePairs, b : LinePairs]
    /\ out = NoResult

IntersectPair(ka, kb) ==
    /\ op = "init"
    /\ op' = "intersect"
    /\ arg' = arg
    /\ out' = [ka |-> ka, kb |-> kb,
               ab |-> Intersect(ka, arg.a, kb, arg.b),
               ba |-> Intersect(kb, arg.b, ka, arg.a)]

LineLine == IntersectPair("line", "line")
SegmentLine == IntersectPair("segment", "line")
LineSegment == IntersectPair("line", "segment")
SegmentSegment == IntersectPair("segment", "segment")

NextLine == LineLine \/ SegmentLine \/ LineSegment \/ SegmentSegment

SpecLine == InitLine /\ [][NextLine]_vars

(***************************************************************************)
(* src/lib.rs: Closed::contains, the default method every shape inherits,  *)
(* applied to the shape's winding_number_2.                                *)
(***************************************************************************)
Contains_NonZero(winding_number_2) == winding_number_2 /= 0

Contains(winding_number_2) == winding_number_2 > 0

(***************************************************************************)
(* src/plane.rs: HalfPlane { normal, offset }.                             *)
(***************************************************************************)
FromNormal(point, normal) == [normal |-> normal, offset |-> Dot(point, normal)]

FromEdge_Reversed(a, b) == FromNormal(a, Normalize(Perp(VSub(a, b))))

FromEdge(a, b) == FromNormal(a, Normalize(Perp(VSub(b, a))))

Distance(plane, point) == RSub(Dot(point, plane.normal), plane.offset)

BoundaryPoint(plane) == VScale(plane.normal, plane.offset)

\* Mutant of PlaneEdge: the edge in the opposite direction.
PlaneEdge_Reversed(plane) ==
    <<BoundaryPoint(plane), VAdd(BoundaryPoint(plane), Perp(plane.normal))>>

PlaneEdge(plane) ==
    LET p == BoundaryPoint(plane) IN <<p, VSub(p, Perp(plane.normal))>>

\* Mutant of PlaneWindingNumber2: the sign of the distance negated.
PlaneWindingNumber2_Negated(plane, point) == -Signum(Distance(plane, point))

\* impl Bound for HalfPlane: self.distance(point).signum() as i32
PlaneWindingNumber2(plane, point) == Signum(Distance(plane, point))

PlaneContains(plane, point) == Contains(PlaneWindingNumber2(plane, point))

(***************************************************************************)
(* src/polygon/mod.rs, src/polygon/line.rs: a Polygon is the sequence of   *)
(* its vertices.                                                           *)
(***************************************************************************)
\* Polygon::edges: vertices_window::<2>(), one edge per vertex, the last
\* one back to the first vertex.
Edges(poly) ==
    [i \in 1..Len(poly) |-> <<poly[i], poly[(i % Len(poly)) + 1]>>]

RECURSIVE SumInt(_, _)
SumInt(f, n) == IF n = 0 THEN 0 ELSE f[n] + SumInt(f, n - 1)

\* impl Bounded for Polygon<V>: winding_number_2
PolygonWindingNumber2(poly, point) ==
    LET e == Edges(poly)
        step(v0, v1) ==
            IF RLe(v0[2], point[2])
            THEN IF RLt(point[2], v1[2])
                      /\ RLt(Zero, PerpDot(VSub(v1, v0), VSub(point, v0)))
                 THEN 1 ELSE 0
            ELSE IF RLe(v1[2], point[2])
                      /\ RLt(PerpDot(VSub(v1, v0), VSub(point, v0)), Zero)
                 THEN -1 ELSE 0
    IN  SumInt([i \in 1..Len(poly) |-> step(e[i][1], e[i][2])], Len(poly))

PolygonContains(poly, point) == Contains(PolygonWindingNumber2(poly, point))

RECURSIVE SumRat(_, _)
SumRat(f, n) == IF n = 0 THEN Zero ELSE RAdd(f[n], SumRat(f, n - 1))
RECURSIVE SumVec(_, _)
SumVec(f, n) == IF n = 0 THEN VZero ELSE VAdd(f[n], SumVec(f, n - 1))

\* impl Integrate for Polygon<V>: moment (shoelace formula)
PolygonMoment(poly) ==
    LET e == Edges(poly)
        n == Len(poly)
        cross == [i \in 1..n |-> PerpDot(e[i][1], e[i][2])]
        area == RMul(RAbs(SumRat(cross, n)), Half)
        sum == SumVec([i \in 1..n |-> VScale(VAdd(e[i][1], e[i][2]), cross[i])], n)
    IN  IF LtEps(area)
        THEN [area |-> area, centroid |-> VZero]
        ELSE [area |-> area,
              centroid |-> VScale(sum, RInv(RMul(I2R(6), area)))]

RECURSIVE Flatten(_)
Flatten(ss) == IF ss = <<>> THEN <<>> ELSE Head(ss) \o Flatten(Tail(ss))

\* plane.edge().intersect_to(&LineSegment(prev, v)), before the unwrap
EdgeCut(plane, prev, v) == LineIntersectSegment(PlaneEdge(plane), <<prev, v>>)

\* The vertex before poly[i] in the walk: `prev` starts as the last vertex.
PrevVertex(poly, i) == IF i = 1 THEN poly[Len(poly)] ELSE poly[i - 1]

\* The closure of the flat_map: what the walk emits on reaching poly[i].
ClipStep(poly, plane, i) ==
    LET prev == PrevVertex(poly, i)
        v == poly[i]
        prev_inside == PlaneContains(plane, prev)
        inside == PlaneContains(plane, v)
    IN  CASE prev_inside /\ inside -> <<v>>
          [] prev_inside /\ ~inside -> <<Unwrap(EdgeCut(plane, prev, v))>>
          [] ~prev_inside /\ inside -> <<Unwrap(EdgeCut(plane, prev, v)), v>>
          [] OTHER -> <<>>

\* The walk reaches an unwrap of None.
ClipPanics(poly, plane) ==
    \E i \in 1..Len(poly) :
        /\ PlaneContains(plane, PrevVertex(poly, i)) /= PlaneContains(plane, poly[i])
        /\ EdgeCut(plane, PrevVertex(poly, i), poly[i]) = None

PolygonIntersectHalfPlane_NoEmptyCheck(poly, plane) ==
    IF poly = <<>> THEN None
    ELSE Some(Flatten([i \in 1..Len(poly) |-> ClipStep(poly, plane, i)]))

\* impl IntersectTo<HalfPlane, Polygon<W>> for Polygon<V>
PolygonIntersectHalfPlane(poly, plane) ==
    IF poly = <<>> THEN None
    ELSE IF ClipPanics(poly, plane) THEN Panic
    ELSE LET result == Flatten([i \in 1..Len(poly) |-> ClipStep(poly, plane, i)])
         IN  IF result /= <<>> THEN Some(result) ELSE None

\* impl IntersectTo<Polygon<U>, Polygon<W>> for Polygon<V>: the loop over
\* other.edges(), from edge k on, with `?` leaving on the first None.
RECURSIVE ClipByEdges(_, _, _)
\* result = result.intersect_to(&plane)?
ClipNext(clipped, edges, k) ==
    IF clipped = Panic THEN Panic
    ELSE IF clipped = None THEN None
    ELSE ClipByEdges(Unwrap(clipped), edges, k + 1)

ClipByEdges(result, edges, k) ==
    IF k > Len(edges) THEN Some(result)
    ELSE ClipNext(PolygonIntersectHalfPlane(result, FromEdge(edges[k][1], edges[k][2])),
                  edges, k)

PolygonIntersectPolygon(poly, other) == ClipByEdges(poly, Edges(other), 1)

(***************************************************************************)
(* Moment { area, centroid } and Moment::merge (src/lib.rs).               *)
(***************************************************************************)
Moment(area, centroid) == [area |-> area, centroid |-> centroid]

MomentDefault == Moment(Zero, VZero)

\* Mutant of Merge: the centroid of the receiver instead of the weighted one.
Merge_Receiver(self, other) ==
    LET area == RAdd(self.area, other.area) IN
    IF LtEps(RAbs(area)) THEN MomentDefault ELSE Moment(area, self.centroid)

\* Mutant of Merge: the sum compared with EPS without abs().
Merge_Signed(self, other) ==
    LET area == RAdd(self.area, other.area) IN
    IF LtEps(area) THEN MomentDefault
    ELSE Moment(area,
                VScale(VAdd(VScale(self.centroid, self.area),
                            VScale(other.centroid, other.area)),
                       RInv(area)))

Merge(self, other) ==
    LET area == RAdd(self.area, other.area) IN
    IF LtEps(RAbs(area)) THEN MomentDefault
    ELSE Moment(area,
                VScale(VAdd(VScale(self.centroid, self.area),
                            VScale(other.centroid, other.area)),
                       RInv(area)))

(***************************************************************************)
(* Disk { center, radius }: the filled circle.  Its boundary circle is the *)
(* same record.                                                            *)
(***************************************************************************)
Disk(center, radius) == [center |-> center, radius |-> radius]

\* impl Bounded for Circle (the filled circle): winding_number_2
DiskWindingNumber2(disk, point) ==
    IF RLe(LengthSquared(VSub(disk.center, point)), RMul(disk.radius, disk.radius))
    THEN 2 * Signum(disk.radius)
    ELSE 0

DiskContains(disk, point) == Contains(DiskWindingNumber2(disk, point))

DiskEdge(disk) == disk

\* Line::signed_distance: the distance of the point from the line, positive
\* on the left of the direction line.0 -> line.1.
\* A line through one point twice has no direction: 0.0 / 0.0.
NaN == <<0, 0>>

\* Line::signed_distance: the distance of the point from the line, positive
\* on the left of the direction line.0 -> line.1.
SignedDistance(line, point) ==
    IF line[1] = line[2] THEN NaN
    ELSE RDiv(PerpDot(VSub(line[2], line[1]), VSub(point, line[1])),
              Length(VSub(line[2], line[1])))

\* r^2 |d|^2 - (d x (c - p0))^2 for the direction d of the line: its sign
\* tells whether the line meets the circle, its root gives the half chord.
DiscriminantOf(radius, dd, cross) ==
    RSub(RMul(RMul(radius, radius), dd), RMul(cross, cross))

Discriminant(circle, line) ==
    DiscriminantOf(circle.radius,
                   LengthSquared(VSub(line[2], line[1])),
                   PerpDot(VSub(line[2], line[1]), VSub(circle.center, line[1])))

\* The points of the line at the parameters (proj -+ sqrt(disc)) / dd, where
\* proj / dd is the parameter of the foot of the perpendicular from the
\* centre.
LinePoints(line, dd, disc, proj) ==
    IF dd = Zero \/ RLt(disc, Zero) THEN None
    ELSE Some(<<Lerp(line[1], line[2], RDiv(RSub(proj, RSqrt(disc)), dd)),
                Lerp(line[1], line[2], RDiv(RAdd(proj, RSqrt(disc)), dd))>>)

\* Circle ∩ Line: the two points of the line on the circle, in the order of
\* the line's direction; a tangent line gives its point twice.
CircleIntersectLine(circle, line) ==
    LinePoints(line,
               LengthSquared(VSub(line[2], line[1])),
               Discriminant(circle, line),
               Dot(VSub(line[2], line[1]), VSub(circle.center, line[1])))

\* The point, if it lies within the segment's parameter range.
OnSegment(seg, q) ==
    IF InUnitEps(RDiv(Dot(VSub(seg[2], seg[1]), VSub(q, seg[1])),
                      LengthSquared(VSub(seg[2], seg[1]))))
    THEN Some(q) ELSE None

BothOnSegment(seg, pts) ==
    IF pts = None THEN None
    ELSE Some(<<OnSegment(seg, Unwrap(pts)[1]), OnSegment(seg, Unwrap(pts)[2])>>)

\* Circle ∩ LineSegment: the points of Circle ∩ Line, each present only if
\* it lies within the segment.
CircleIntersectSegment(circle, seg) ==
    BothOnSegment(seg, CircleIntersectLine(circle, seg))

(***************************************************************************)
(* src/arc.rs, src/polygon/circle.rs: ArcVertex { point, sagitta } and the *)
(* ArcPolygon, the sequence of its arc vertices.                           *)
(***************************************************************************)
ArcVertex(point, sagitta) == [point |-> point, sagitta |-> sagitta]

\* ArcPolygon::from_circle
FromCircle(circle) ==
    << ArcVertex(VAdd(circle.center, <<Zero, RNeg(circle.radius)>>), circle.radius),
       ArcVertex(VAdd(circle.center, <<Zero, circle.radius>>), circle.radius) >>

\* ArcPolygon::as_polygon
AsPolygon(arcs) == [i \in 1..Len(arcs) |-> arcs[i].point]

\* The area of a disk segment with a sagitta of EPS or more is an arc cosine.
\* Where the model has no value for it, it is never compared.
Transcendental == <<"acos">>

\* core::f32::consts::PI is a rational close to pi.  The model takes 22 / 7:
\* its small denominator keeps the areas of small disks within the integers
\* of the checker.
Pi == Rat(22, 7)

\* impl Integrate for Circle: moment
CircleMoment(circle) ==
    Moment(RMul(Pi, RMul(circle.radius, circle.radius)), circle.center)

\* APPROX_CIRCLE = 1e-4
ApproxCircleInv == 10000

\* f32::acos, at the cosines where it is a rational multiple of pi
ACos(x) ==
    IF x = Zero THEN RMul(Pi, Half)
    ELSE IF x = One THEN Zero
    ELSE IF x = I2R(-1) THEN Pi
    ELSE Transcendental

\* (h.powi(2) + s.powi(2)) / (2.0 * s)
SegmentRadius(h, s) == RDiv(RAdd(RMul(h, h), RMul(s, s)), RMul(I2R(2), s))

\* Mutant of SegmentNormal: the sign of the sagitta left out.
SegmentNormal_Unsigned(a, b, h, sagitta) ==
    VScale(VNeg(Perp(VSub(b, a))), RInv(RMul(I2R(2), h)))

\* -(b - a).perp() / (2.0 * h) * sagitta.signum()
SegmentNormal(a, b, h, sagitta) ==
    VScale(VNeg(Perp(VSub(b, a))),
           RMul(RInv(RMul(I2R(2), h)), I2R(Signum(sagitta))))

\* (area, (2.0 / 3.0) * sine.powi(3) / area) with
\* area = cosine.acos() - cosine * sine
CircleArea(area, sine) ==
    <<area, RDiv(RMul(Rat(2, 3), RMul(sine, RMul(sine, sine))), area)>>

\* The circle approximated by a parabola, with y = 1.0 - cosine.abs() and
\* area = (4.0 / 3.0) * (2.0 * y).sqrt() * y.
ParabolaArea(cosine, y, area) ==
    IF RLt(Zero, cosine)
    THEN <<area, RSub(One, RMul(Rat(3, 10), y))>>
    ELSE <<RSub(Pi, area),
           RDiv(RMul(RNeg(RSub(One, RMul(Rat(3, 10), y))), area), RSub(Pi, area))>>

\* let (area, offset) = if s > APPROX_CIRCLE * radius { .. } else { .. }
AreaOffset(s, radius, cosine, sine) ==
    IF RLt(RMul(Rat(1, ApproxCircleInv), radius), s)
    THEN IF ACos(cosine) = Transcendental THEN <<Transcendental, Transcendental>>
         ELSE CircleArea(RSub(ACos(cosine), RMul(cosine, sine)), sine)
    ELSE IF ~IsSquare(RMul(I2R(2), RSub(One, RAbs(cosine))))
         THEN <<Transcendental, Transcendental>>
         ELSE ParabolaArea(cosine, RSub(One, RAbs(cosine)),
                           RMul(RMul(Rat(4, 3),
                                     RSqrt(RMul(I2R(2), RSub(One, RAbs(cosine))))),
                                RSub(One, RAbs(cosine))))

\* Moment { area: area * radius.powi(2),
\*          centroid: c + normal * (s + radius * (offset - 1.0)) }
SegmentMomentOf(c, normal, s, radius, area_offset) ==
    IF area_offset[1] = Transcendental THEN Moment(Transcendental, Transcendental)
    ELSE Moment(RMul(area_offset[1], RMul(radius, radius)),
                VAdd(c, VScale(normal,
                               RAdd(s, RMul(radius, RSub(area_offset[2], One))))))

SegmentMomentAt(c, normal, s, radius, h) ==
    SegmentMomentOf(c, normal, s, radius,
                    AreaOffset(s, radius, RSub(One, RDiv(s, radius)), RDiv(h, radius)))

\* impl Integrate for DiskSegment: moment.  A chord whose length is zero or
\* has no rational value gives a moment that is never compared.
DiskSegmentMoment(a, b, sagitta) ==
    IF LtEps(RAbs(sagitta))
    THEN Moment(Zero, VScale(VAdd(a, b), Half))
    ELSE IF a = b \/ ~IsSquare(LengthSquared(VSub(b, a)))
    THEN Moment(Transcendental, Transcendental)
    ELSE SegmentMomentAt(VScale(VAdd(a, b), Half),
                         SegmentNormal(a, b, RMul(Half, Length(VSub(b, a))), sagitta),
                         RAbs(sagitta),
                         SegmentRadius(RMul(Half, Length(VSub(b, a))), RAbs(sagitta)),
                         RMul(Half, Length(VSub(b, a))))

RECURSIVE MergeSegments(_, _, _)
MergeSegments(moment, arcs, k) ==
    IF k > Len(arcs) THEN moment
    ELSE MergeSegments(
            Merge(moment,
                  DiskSegmentMoment(arcs[k].point, arcs[(k % Len(arcs)) + 1].point,
                                    arcs[k].sagitta)),
            arcs, k + 1)

\* Mutant of ArcPolygonMoment: the chord polygon alone.
ArcPolygonMoment_ChordOnly(arcs) == PolygonMoment(AsPolygon(arcs))

\* impl Integrable for ArcPolygon<V>: moment
ArcPolygonMoment(arcs) == MergeSegments(PolygonMoment(AsPolygon(arcs)), arcs, 1)

\* The arc vertex that closes an outside run at its exit point.
ArcAt(exit, radius, distance) ==
    ArcVertex(exit, IF distance = NaN THEN NaN ELSE RSub(radius, distance))

\* `if let Some(last) = last`: the arc from the exit point `last` to the
\* re-entry point, if an exit has been seen.
ArcFromLast(disk, st, reentry) ==
    IF IsSome(st.last)
    THEN <<ArcAt(Unwrap(st.last), disk.radius,
                 SignedDistance(<<Unwrap(st.last), reentry>>, disk.center))>>
    ELSE <<>>

FirstAfter(st, reentry) ==
    IF ~IsSome(st.last) /\ ~IsSome(st.first) THEN Some(reentry) ELSE st.first

\* (true, true)
StayInside(st, prev) ==
    [st EXCEPT !.emitted = Append(@, ArcVertex(prev, Zero))]

\* (true, false): cut is disk.edge().intersect(&Line(prev, v))
Leave(st, prev, cut) ==
    IF cut = None THEN [st EXCEPT !.panicked = TRUE]
    ELSE [st EXCEPT !.last = Some(Unwrap(cut)[2]),
                    !.emitted = Append(@, ArcVertex(prev, Zero))]

ReenterAt(disk, st, clip) ==
    [st EXCEPT !.first = FirstAfter(st, clip),
               !.emitted = @ \o ArcFromLast(disk, st, clip) \o <<ArcVertex(clip, Zero)>>]

\* (false, true)
Enter(disk, st, cut) ==
    IF cut = None THEN [st EXCEPT !.panicked = TRUE]
    ELSE ReenterAt(disk, st, Unwrap(cut)[1])

\* (false, false): seg is disk.edge().intersect(&LineSegment(prev, v))
PassBy(disk, st, seg) ==
    IF seg /= None /\ IsSome(Unwrap(seg)[1]) /\ IsSome(Unwrap(seg)[2])
    THEN [ReenterAt(disk, st, Unwrap(Unwrap(seg)[1]))
            EXCEPT !.last = Some(Unwrap(Unwrap(seg)[2]))]
    ELSE st

MatchInside(disk, st, prev, v, prev_inside, inside) ==
    CASE prev_inside /\ inside -> StayInside(st, prev)
      [] prev_inside /\ ~inside ->
           Leave(st, prev, CircleIntersectLine(DiskEdge(disk), <<prev, v>>))
      [] ~prev_inside /\ inside ->
           Enter(disk, st, CircleIntersectLine(DiskEdge(disk), <<prev, v>>))
      [] OTHER ->
           PassBy(disk, st, CircleIntersectSegment(DiskEdge(disk), <<prev, v>>))

\* The closure of the flat_map of the disk walk, for the directed edge
\* prev -> v; st holds `first`, `last`, the vertices emitted so far, and
\* whether an unwrap has failed.
DiskStep(disk, st, prev, v) ==
    MatchInside(disk, st, prev, v, DiskContains(disk, prev), DiskContains(disk, v))

\* The walk over iter.chain([prev]): the vertices after the first, then the
\* first again; i is the position of `prev`.
RECURSIVE DiskWalk(_, _, _, _)
DiskWalk(poly, disk, st, i) ==
    IF st.panicked \/ i > Len(poly) THEN st
    ELSE DiskWalk(poly, disk,
                  DiskStep(disk, st, poly[i], poly[(i % Len(poly)) + 1]),
                  i + 1)

\* "Deduplicate vertices": a vertex is kept if it is further than EPS from
\* the next one, the first one following the last.
RECURSIVE DedupFrom(_, _)
DedupFrom(emitted, i) ==
    IF i > Len(emitted) THEN <<>>
    ELSE (IF GtEps(MaxAbs(VSub(emitted[i].point,
                               emitted[(i % Len(emitted)) + 1].point)))
          THEN <<emitted[i]>> ELSE <<>>) \o DedupFrom(emitted, i + 1)

Dedup_KeepAll(emitted) == emitted

Dedup(emitted) == DedupFrom(emitted, 1)

\* The end of intersect_to: `iter.next()?` on the emitted vertices, the
\* deduplication, and none for an empty result.
Finish(st) ==
    IF st.panicked THEN Panic
    ELSE IF st.emitted = <<>> THEN None
    ELSE IF Dedup(st.emitted) /= <<>> THEN Some(Dedup(st.emitted)) ELSE None

\* impl IntersectTo<Disk, ArcPolygon<W>> for Polygon<V>
PolygonIntersectDisk(poly, disk) ==
    IF poly = <<>> THEN None
    ELSE Finish(DiskWalk(poly, disk,
                         [first |-> None, last |-> None, emitted |-> <<>>,
                          panicked |-> FALSE], 1))

(***************************************************************************)
(* Operands of the clipping operations.                                    *)
(***************************************************************************)
\* The vertices polygons are drawn from.
ClipPoints == {Vec(0, 0), Vec(2, 0), Vec(2, 2), Vec(0, 2), Vec(4, 0), Vec(4, 2)}

RECURSIVE SeqsUpTo(_, _)
SeqsUpTo(S, n) ==
    IF n = 0 THEN {<<>>}
    ELSE LET shorter == SeqsUpTo(S, n - 1) IN
         shorter \cup {Append(q, x) : q \in {t \in shorter : Len(t) = n - 1}, x \in S}

\* The square of the tests intersect_plane and intersect_polygon.
Square02 == <<Vec(0, 0), Vec(2, 0), Vec(2, 2), Vec(0, 2)>>
Square13 == <<Vec(1, 1), Vec(3, 1), Vec(3, 3), Vec(1, 3)>>
\* The half-plane of the test intersect_plane.
PlaneX1 == FromNormal(Vec(1, 0), Vec(1, 0))

Polygons == SeqsUpTo(ClipPoints, MaxLen) \cup {Square02}

UnitDiag == <<<<3, 5>>, <<4, 5>>>>
Planes ==
    { PlaneX1,
      FromNormal(Vec(1, 0), Vec(-1, 0)),
      FromNormal(Vec(0, 1), Vec(0, 1)),
      FromNormal(Vec(2, 0), Vec(1, 0)),
      FromNormal(Vec(1, 1), UnitDiag),
      FromNormal(Vec(1, 1), VNeg(UnitDiag)),
      FromNormal(Vec(5, 0), Vec(1, 0)) }

\* Convex counter-clockwise polygons whose edges have rational lengths.
ConvexOthers ==
    { Square13,
      Square02,
      <<Vec(1, 0), Vec(3, 0), Vec(3, 1), Vec(1, 1)>>,
      <<Vec(0, 0), Vec(4, 0), Vec(4, 3)>>,
      <<Vec(1, -1), Vec(5, 2), Vec(2, 6), Vec(-2, 3)>> }

\* Operands of the disk clip.  The strip of the test
\* intersect_polygon_circle_stripe and a triangle around the disk as in
\* intersect_polygon_circle_inside, on the scale of a disk of radius 5.
Strip == <<Vec(-10, -3), Vec(10, -3), Vec(10, 3), Vec(-10, 3)>>
Around == <<Vec(-10, -10), Vec(10, -10), Vec(0, 20)>>
StripRepeated == <<Vec(-10, -3), Vec(-10, -3), Vec(10, -3), Vec(10, 3), Vec(-10, 3)>>
Tiny == <<1, 10000>>

\* A triangle of area 5e-9, below EPS.
TinyTriangle == <<Vec(0, 0), <<Tiny, Zero>>, <<Zero, Tiny>>>>

DiskPoints ==
    {Strip[i] : i \in 1..Len(Strip)} \cup {Around[i] : i \in 1..Len(Around)}
        \cup {Vec(0, 0), Vec(8, 6), Vec(-8, 6)}

DiskPolygons ==
    SeqsUpTo(DiskPoints, MaxLen) \cup {Strip, StripRepeated, TinyTriangle}

Disk5 == Disk(Vec(0, 0), I2R(5))
Disk13 == Disk(Vec(0, 0), I2R(13))
Disks == {Disk5, Disk13}

\* The points in which the lines of the polygon's edges meet the circle.
CutPoints(poly, disk) ==
    UNION { IF CircleIntersectLine(disk, Edges(poly)[i]) = None THEN {}
            ELSE { Unwrap(CircleIntersectLine(disk, Edges(poly)[i]))[1],
                   Unwrap(CircleIntersectLine(disk, Edges(poly)[i]))[2] }
            : i \in {j \in 1..Len(poly) :
                        ~(DiskContains(disk, Edges(poly)[j][1])
                          /\ DiskContains(disk, Edges(poly)[j][2]))} }

\* The walk takes no square root on an edge with both ends inside; on any
\* other edge the line misses the circle or cuts it in rational points.
ExactEdge(disk, edge) ==
    IF DiskContains(disk, edge[1]) /\ DiskContains(disk, edge[2]) THEN TRUE
    ELSE IF RLt(Discriminant(disk, edge), Zero) THEN TRUE
    ELSE /\ edge[1] /= edge[2]
         /\ RLt(Zero, Discriminant(disk, edge))
         /\ IsSquare(Discriminant(disk, edge))

\* Every square root the disk walk can take on these operands is rational,
\* and no chord it can measure is degenerate.
ExactOperands(poly, disk) ==
    /\ \A i \in 1..Len(poly) : ExactEdge(disk, Edges(poly)[i])
    /\ \A a, b \in CutPoints(poly, disk) :
          a /= b => IsSquare(LengthSquared(VSub(b, a)))

(***************************************************************************)
(* SpecClip: a polygon clipped against a half-plane, a polygon or a disk.  *)
(***************************************************************************)
\* Polygons with an edge that crosses the boundary x = 1 at a slope of less
\* than EPS, or with a length below EPS.
NearParallel == <<Vec(1, 0), Vec(2, 2), <<Rat(2 * EpsInv - 1, 2 * EpsInv), I2R(2)>>>>
ShortEdge ==
    <<Vec(1, 0), Vec(2, 0), <<Rat(2 * EpsInv + 3, 2 * EpsInv), I2R(2)>>,
      <<Rat(2 * EpsInv - 1, 2 * EpsInv), Zero>>>>
\* They are clipped against the two half-planes with the boundary x = 1.
DegeneratePolygons == {NearParallel, ShortEdge}
PlanesX1 == {PlaneX1, FromNormal(Vec(1, 0), Vec(-1, 0))}

InitClip ==
    /\ op = "init"
    /\ arg \in [kind : {"plane"}, poly : Polygons, clip : Planes]
          \cup [kind : {"plane"}, poly : DegeneratePolygons, clip : PlanesX1]
          \cup [kind : {"polygon"}, poly : Polygons, clip : ConvexOthers]
          \cup [kind : {"disk"}, poly : DiskPolygons, clip : Disks]
    /\ arg.kind = "disk" => ExactOperands(arg.poly, arg.clip)
    /\ out = NoResult

ClipDisk ==
    /\ op = "init"
    /\ arg.kind = "disk"
    /\ op' = "intersect_to"
    /\ arg' = arg
    /\ out' = PolygonIntersectDisk(arg.poly, arg.clip)

ClipHalfPlane ==
    /\ op = "init"
    /\ arg.kind = "plane"
    /\ op' = "intersect_to"
    /\ arg' = arg
    /\ out' = PolygonIntersectHalfPlane(arg.poly, arg.clip)

ClipPolygon ==
    /\ op = "init"
    /\ arg.kind = "polygon"
    /\ op' = "intersect_to"
    /\ arg' = arg
    /\ out' = PolygonIntersectPolygon(arg.poly, arg.clip)

NextClip == ClipHalfPlane \/ ClipPolygon \/ ClipDisk

SpecClip == InitClip /\ [][NextClip]_vars

(***************************************************************************)
(* src/arc.rs: Arc { points, sagitta } and DiskSegment(Arc).               *)
(***************************************************************************)
Arc(a, b, sagitta) == [points |-> <<a, b>>, sagitta |-> sagitta]

\* Edge::from_vertices for Arc, over the cyclic window of the arc vertices
ArcEdges(arcs) ==
    [i \in 1..Len(arcs) |->
        Arc(arcs[i].point, arcs[(i % Len(arcs)) + 1].point, arcs[i].sagitta)]

\* Disk::new(center, radius).contains(point) && (point - c).dot(normal) > 0.0
\* with center = c + normal * (s - radius)
SegmentInside(point, c, normal, s, radius, sagitta) ==
    IF /\ DiskContains(Disk(VAdd(c, VScale(normal, RSub(s, radius))), radius), point)
       /\ RLt(Zero, Dot(VSub(point, c), normal))
    THEN 2 * Signum(sagitta)
    ELSE 0

SegmentOver(point, a, b, h, sagitta) ==
    SegmentInside(point, VScale(VAdd(a, b), Half), SegmentNormal(a, b, h, sagitta),
                  RAbs(sagitta), SegmentRadius(h, RAbs(sagitta)), sagitta)

\* impl Bounded for DiskSegment: winding_number_2.  A chord of length zero
\* makes the normal 0.0 / 0.0, and no comparison with a NaN is true.
DiskSegmentWindingNumber2(arc, point) ==
    IF LtEps(RAbs(arc.sagitta)) THEN 0
    ELSE IF arc.points[1] = arc.points[2] THEN 0
    ELSE SegmentOver(point, arc.points[1], arc.points[2],
                     RMul(Half, Length(VSub(arc.points[2], arc.points[1]))),
                     arc.sagitta)

\* impl Closed for ArcPolygon<V>: winding_number_2
ArcPolygonWindingNumber2(arcs, point) ==
    PolygonWindingNumber2(AsPolygon(arcs), point)
        + SumInt([i \in 1..Len(arcs) |->
                     DiskSegmentWindingNumber2(ArcEdges(arcs)[i], point)], Len(arcs))

(***************************************************************************)
(* src/lib.rs: the shapes behind Closed, each tagged with its type, and    *)
(* the wrappers Option<T> and Either<L, R>.                                *)
(***************************************************************************)
Shape(kind, shape) == [kind |-> kind, shape |-> shape]
Left(shape) == [side |-> "left", inner |-> shape]
Right(shape) == [side |-> "right", inner |-> shape]

\* Closed::winding_number_2, dispatched on the type of the shape
RECURSIVE WindingNumber2(_, _)
\* impl Closed for Option<T>
OptionWindingNumber2(option, point) ==
    IF option = None THEN 0 ELSE WindingNumber2(Unwrap(option), point)

\* impl Closed for Either<L, R>
EitherWindingNumber2(either, point) ==
    IF either.side = "left"
    THEN WindingNumber2(either.inner, point)
    ELSE WindingNumber2(either.inner, point)

WindingNumber2(s, point) ==
    CASE s.kind = "disk" -> DiskWindingNumber2(s.shape, point)
      [] s.kind = "plane" -> PlaneWindingNumber2(s.shape, point)
      [] s.kind = "polygon" -> PolygonWindingNumber2(s.shape, point)
      [] s.kind = "segment" -> DiskSegmentWindingNumber2(s.shape, point)
      [] s.kind = "arcs" -> ArcPolygonWindingNumber2(s.shape, point)
      [] s.kind = "option" -> OptionWindingNumber2(s.shape, point)
      [] s.kind = "either" -> EitherWindingNumber2(s.shape, point)

\* Closed::contains
ShapeContains(s, point) == Contains(WindingNumber2(s, point))

(***************************************************************************)
(* Operands of the containment test: the shapes of the tests and a few     *)
(* more, and the points of a grid of half units.                           *)
(***************************************************************************)
MaxHalves == 10

HalfPoints ==
    {<<Rat(x, 2), Rat(y, 2)>> : x, y \in (-MaxHalves)..MaxHalves}

Triangle == <<Vec(0, 0), Vec(2, 0), Vec(1, 2)>>
Concave == <<Vec(0, 0), Vec(2, 0), Vec(2, 2), Vec(1, 2), Vec(1, 1), Vec(0, 1)>>
Clockwise == <<Vec(0, 2), Vec(2, 2), Vec(2, 0), Vec(0, 0)>>
Disk2 == Disk(Vec(1, 1), I2R(2))
Disk3 == Disk(Vec(1, 2), I2R(3))
TestArc == Arc(Vec(4, 1), Vec(1, 1), I2R(4))
\* The lens of the circles of radius 5/2 around (0, 0) and (3, 0).
LensLeft == Disk(Vec(0, 0), Rat(5, 2))
LensRight == Disk(Vec(3, 0), Rat(5, 2))
TestLens ==
    << ArcVertex(<<Rat(3, 2), I2R(-2)>>, One), ArcVertex(<<Rat(3, 2), I2R(2)>>, One) >>
Petals ==
    << ArcVertex(Vec(-1, -1), Zero), ArcVertex(Vec(1, -1), One),
       ArcVertex(Vec(1, 1), Zero), ArcVertex(Vec(-1, 1), RNeg(Half)) >>

ContainShapes ==
    [kind : {"disk"}, shape : {Disk2, Disk3, Disk5}]
      \cup [kind : {"plane"},
            shape : {PlaneX1, FromNormal(Vec(0, 0), Vec(0, 1)),
                     FromEdge(Vec(0, 0), Vec(0, 2))}]
      \cup [kind : {"polygon"},
            shape : {Triangle, Concave, Square02, Square13, Clockwise}]
      \cup [kind : {"segment"},
            shape : {TestArc, Arc(Vec(2, 0), Vec(-2, 0), I2R(2)),
                     Arc(Vec(2, 0), Vec(-2, 0), I2R(-1)),
                     Arc(Vec(2, 0), Vec(-2, 0), Zero),
                     Arc(Vec(2, 0), Vec(-2, 0), Rat(1, 2 * EpsInv)),
                     Arc(Vec(1, 1), Vec(1, 1), One)}]
      \cup [kind : {"arcs"},
            shape : {Petals, FromCircle(Disk2), TestLens,
                     <<ArcVertex(Vec(-4, -3), Zero), ArcVertex(Vec(4, -3), One),
                       ArcVertex(Vec(4, 3), Zero)>>}]
      \cup [kind : {"option"},
            shape : {None, Some(Shape("disk", Disk3)), Some(Shape("polygon", Triangle))}]
      \cup [kind : {"either"},
            shape : {Left(Shape("disk", Disk2)), Right(Shape("disk", Disk3)),
                     Left(Shape("polygon", Clockwise)),
                     Right(Shape("option", None))}]

(***************************************************************************)
(* SpecContains: winding_number_2 and contains of a shape at a point.      *)
(***************************************************************************)
InitContains ==
    /\ op = "init"
    /\ arg \in [shape : ContainShapes, point : HalfPoints]
    /\ out = NoResult

\* The two answers of a shape: winding_number_2 and Closed::contains.
Answers(winding_number_2) ==
    [winding_number_2 |-> winding_number_2, contains |-> Contains(winding_number_2)]

ContainsDisk ==
    /\ op = "init"
    /\ arg.shape.kind = "disk"
    /\ op' = "contains"
    /\ arg' = arg
    /\ out' = Answers(DiskWindingNumber2(arg.shape.shape, arg.point))

ContainsHalfPlane ==
    /\ op = "init"
    /\ arg.shape.kind = "plane"
    /\ op' = "contains"
    /\ arg' = arg
    /\ out' = Answers(PlaneWindingNumber2(arg.shape.shape, arg.point))

ContainsPolygon ==
    /\ op = "init"
    /\ arg.shape.kind = "polygon"
    /\ op' = "contains"
    /\ arg' = arg
    /\ out' = Answers(PolygonWindingNumber2(arg.shape.shape, arg.point))

ContainsDiskSegment ==
    /\ op = "init"
    /\ arg.shape.kind = "segment"
    /\ op' = "contains"
    /\ arg' = arg
    /\ out' = Answers(DiskSegmentWindingNumber2(arg.shape.shape, arg.point))

ContainsArcPolygon ==
    /\ op = "init"
    /\ arg.shape.kind = "arcs"
    /\ op' = "contains"
    /\ arg' = arg
    /\ out' = Answers(ArcPolygonWindingNumber2(arg.shape.shape, arg.point))

ContainsOption ==
    /\ op = "init"
    /\ arg.shape.kind = "option"
    /\ op' = "contains"
    /\ arg' = arg
    /\ out' = Answers(OptionWindingNumber2(arg.shape.shape, arg.point))

ContainsEither ==
    /\ op = "init"
    /\ arg.shape.kind = "either"
    /\ op' = "contains"
    /\ arg' = arg
    /\ out' = Answers(EitherWindingNumber2(arg.shape.shape, arg.point))

NextContains ==
    \/ ContainsDisk
    \/ ContainsHalfPlane
    \/ ContainsPolygon
    \/ ContainsDiskSegment
    \/ ContainsArcPolygon
    \/ ContainsOption
    \/ ContainsEither

SpecContains == InitContains /\ [][NextContains]_vars

(***************************************************************************)
(* src/circle.rs: the intersections of a circle with a circle and with a   *)
(* half-plane.  The result is an Either: Left is the clipped shape, Right  *)
(* the whole circle.                                                       *)
(***************************************************************************)
\* 0.5 * (distance + (self.radius.powi(2) - other.radius.powi(2)) / distance)
SelfApothem(self, other, distance) ==
    RMul(Half, RAdd(distance,
                    RDiv(RSub(RMul(self.radius, self.radius),
                              RMul(other.radius, other.radius)), distance)))

\* Mutant of LensAround: the sagittas of the two vertices exchanged.
LensAround_Swapped(m, dir, h, self_sagitta, other_sagitta) ==
    << ArcVertex(VSub(m, VScale(Perp(dir), h)), other_sagitta),
       ArcVertex(VAdd(m, VScale(Perp(dir), h)), self_sagitta) >>

\* Polygon::new([ArcVertex { m - dir.perp() * h, .. }, ArcVertex { m + dir.perp() * h, .. }])
LensAround(m, dir, h, self_sagitta, other_sagitta) ==
    << ArcVertex(VSub(m, VScale(Perp(dir), h)), self_sagitta),
       ArcVertex(VAdd(m, VScale(Perp(dir), h)), other_sagitta) >>

\* The lens, from the common chord apothems of both circles.
Lens(self, other, dir, self_apothem, other_apothem) ==
    LensAround(VAdd(self.center, VScale(dir, self_apothem)), dir,
               RSqrt(RSub(RMul(self.radius, self.radius),
                          RMul(self_apothem, self_apothem))),
               RSub(self.radius, self_apothem),
               RSub(other.radius, other_apothem))

\* Mutant of Nested: the receiver, whichever circle is the smaller one.
Nested_Receiver(self, other) == Some(Right(self))

\* One circle is inside another
Nested(self, other) ==
    IF RLt(self.radius, other.radius) THEN Some(Right(self)) ELSE Some(Right(other))

CirclesAt(self, other, rel_pos, distance) ==
    IF RLt(distance, RAdd(self.radius, other.radius))
    THEN IF RLt(RAbs(RSub(self.radius, other.radius)), distance)
         THEN Some(Left(Lens(self, other, VScale(rel_pos, RInv(distance)),
                             SelfApothem(self, other, distance),
                             RSub(distance, SelfApothem(self, other, distance)))))
         ELSE Nested(self, other)
    ELSE None

\* impl Intersect<Circle> for Circle
CircleIntersectCircle(self, other) ==
    CirclesAt(self, other, VSub(other.center, self.center),
              Length(VSub(other.center, self.center)))

\* Arc { points: (m + normal.perp() * h, m - normal.perp() * h), sagitta }
ChordAround(m, normal, h, sagitta) ==
    Arc(VAdd(m, VScale(Perp(normal), h)), VSub(m, VScale(Perp(normal), h)), sagitta)

\* The three outcomes of Circle::intersect(HalfPlane) by the apothem.
Chord(circle, normal, apothem) ==
    IF RLt(circle.radius, apothem) THEN None
    ELSE IF RLt(apothem, RNeg(circle.radius)) THEN Some(Right(circle))
    ELSE Some(Left(ChordAround(VAdd(circle.center, VScale(normal, apothem)), normal,
                               RSqrt(RSub(RMul(circle.radius, circle.radius),
                                          RMul(apothem, apothem))),
                               RSub(circle.radius, apothem))))

\* impl Intersect<HalfPlane> for Circle
CircleIntersectHalfPlane(circle, plane) ==
    Chord(circle, plane.normal, RNeg(Distance(plane, circle.center)))

(***************************************************************************)
(* Operands of the circle intersections: circles and half-planes on a      *)
(* grid, kept when every square root the intersection takes is rational.   *)
(***************************************************************************)
MaxCentreX == 7
MaxCentreY == 4

Radii == {One, I2R(2), Rat(5, 2), Rat(13, 2), Rat(15, 2)}
UnitNormals == {Vec(1, 0), Vec(0, 1), Vec(-1, 0), <<Rat(3, 5), Rat(4, 5)>>}
Centres == {Vec(x, y) : x \in 0..MaxCentreX, y \in 0..MaxCentreY}
FirstCircles == {Disk(c, r) : c \in {Vec(0, 0), Vec(1, 0)}, r \in Radii}
SecondCircles == {Disk(c, r) : c \in Centres, r \in Radii}
CirclePlanes == {FromNormal(p, n) : p \in Centres, n \in UnitNormals}

\* The distance of the centres is rational, and so is the half chord of the
\* lens if there is one.
ExactCircles(a, b) ==
    IF ~IsSquare(LengthSquared(VSub(b.center, a.center))) THEN FALSE
    ELSE IF ~RLt(Length(VSub(b.center, a.center)), RAdd(a.radius, b.radius)) THEN TRUE
    ELSE IF ~RLt(RAbs(RSub(a.radius, b.radius)), Length(VSub(b.center, a.center)))
         THEN TRUE
    ELSE IsSquare(RSub(RMul(a.radius, a.radius),
                       RMul(SelfApothem(a, b, Length(VSub(b.center, a.center))),
                            SelfApothem(a, b, Length(VSub(b.center, a.center))))))

\* The half chord cut by the plane's boundary is rational, if there is one.
ExactChord(circle, plane) ==
    IF RLt(RMul(circle.radius, circle.radius),
           RMul(Distance(plane, circle.center), Distance(plane, circle.center)))
    THEN TRUE
    ELSE IsSquare(RSub(RMul(circle.radius, circle.radius),
                       RMul(Distance(plane, circle.center),
                            Distance(plane, circle.center))))

(***************************************************************************)
(* SpecCircle: a circle intersected with a circle, in both orders, and     *)
(* with a half-plane.                                                      *)
(***************************************************************************)
InitCircle ==
    /\ op = "init"
    /\ arg \in [kind : {"circle"}, a : FirstCircles, b : SecondCircles]
          \cup [kind : {"plane"}, a : FirstCircles, b : CirclePlanes]
    /\ IF arg.kind = "circle" THEN ExactCircles(arg.a, arg.b)
                              ELSE ExactChord(arg.a, arg.b)
    /\ out = NoResult

IntersectCircles ==
    /\ op = "init"
    /\ arg.kind = "circle"
    /\ op' = "intersect"
    /\ arg' = arg
    /\ out' = [ab |-> CircleIntersectCircle(arg.a, arg.b),
               ba |-> CircleIntersectCircle(arg.b, arg.a)]

IntersectHalfPlane ==
    /\ op = "init"
    /\ arg.kind = "plane"
    /\ op' = "intersect"
    /\ arg' = arg
    /\ out' = [ab |-> CircleIntersectHalfPlane(arg.a, arg.b)]

NextCircle == IntersectCircles \/ IntersectHalfPlane

SpecCircle == InitCircle /\ [][NextCircle]_vars

(***************************************************************************)
(* Operands of the half-plane constructors: points of a grid around the    *)
(* origin, unit normals with rational components, offsets in half units.   *)
(***************************************************************************)
MaxPlane == 3

PlanePoints == {Vec(x, y) : x, y \in (-MaxPlane)..MaxPlane}
PlaneNormals ==
    UnitNormals \cup {Vec(0, -1), <<Rat(-4, 5), Rat(3, 5)>>, <<Rat(4, 5), Rat(-3, 5)>>}
PlaneOffsets == {Rat(k, 2) : k \in (-2 * MaxPlane)..(2 * MaxPlane)}
\* Edges whose length is rational, so that normalize() is exact.
PlaneEdges ==
    {e \in PlanePoints \X PlanePoints :
        e[1] /= e[2] /\ IsSquare(LengthSquared(VSub(e[2], e[1])))}

(***************************************************************************)
(* SpecPlane: HalfPlane::from_normal and from_edge probed at a point, and  *)
(* the edge of a half-plane turned back into a half-plane.                 *)
(***************************************************************************)
InitPlane ==
    /\ op = "init"
    /\ arg \in [kind : {"normal"}, point : PlanePoints, normal : PlaneNormals,
                probe : PlanePoints]
          \cup [kind : {"edge"}, edge : PlaneEdges, probe : PlanePoints]
          \cup [kind : {"plane"}, normal : PlaneNormals, offset : PlaneOffsets]
    /\ out = NoResult

\* What a test reads off a half-plane at a point.
Probe(plane, point) ==
    [plane |-> plane,
     distance |-> Distance(plane, point),
     contains |-> PlaneContains(plane, point)]

FromNormalProbe ==
    /\ op = "init"
    /\ arg.kind = "normal"
    /\ op' = "from_normal"
    /\ arg' = arg
    /\ out' = Probe(FromNormal(arg.point, arg.normal), arg.probe)

FromEdgeProbe ==
    /\ op = "init"
    /\ arg.kind = "edge"
    /\ op' = "from_edge"
    /\ arg' = arg
    /\ out' = Probe(FromEdge(arg.edge[1], arg.edge[2]), arg.probe)

EdgeRoundTrip ==
    /\ op = "init"
    /\ arg.kind = "plane"
    /\ op' = "edge"
    /\ arg' = arg
    /\ out' = [edge |-> PlaneEdge([normal |-> arg.normal, offset |-> arg.offset]),
               plane |-> FromEdge(PlaneEdge([normal |-> arg.normal,
                                             offset |-> arg.offset])[1],
                                  PlaneEdge([normal |-> arg.normal,
                                             offset |-> arg.offset])[2])]

NextPlane == FromNormalProbe \/ FromEdgeProbe \/ EdgeRoundTrip

SpecPlane == InitPlane /\ [][NextPlane]_vars

(***************************************************************************)
(* SpecMoment: Moment::merge of two moments.  Areas of both signs, zero,   *)
(* within EPS of zero and exactly EPS; centroids on a grid.                *)
(***************************************************************************)
MaxCentroid == 4

Areas ==
    {I2R(-2), I2R(-1), Rat(-1, 2 * EpsInv), Zero, Rat(1, 2 * EpsInv), Rat(1, EpsInv),
     One, I2R(2)}
Centroids == {Vec(x, y) : x, y \in 0..MaxCentroid}
Moments == [area : Areas, centroid : Centroids]

\* Three moments at a time: areas that are not negative, centroids on the
\* corners of a smaller grid.
MaxCorner == 1

SmallAreas == {Zero, Rat(1, 2 * EpsInv), Rat(1, EpsInv), One, I2R(2)}
Corners == {Vec(x, y) : x, y \in 0..MaxCorner}
SmallMoments == [area : SmallAreas, centroid : Corners]

InitMoment ==
    /\ op = "init"
    /\ arg \in [a : Moments, b : Moments]
          \cup [a : SmallMoments, b : SmallMoments, c : SmallMoments]
    /\ out = NoResult

MergeMoments ==
    /\ op = "init"
    /\ DOMAIN arg = {"a", "b"}
    /\ op' = "merge"
    /\ arg' = arg
    /\ out' = Merge(arg.a, arg.b)

\* a.merge(b), b.merge(a), a.merge(b).merge(c) and a.merge(b.merge(c))
MergeThree ==
    /\ op = "init"
    /\ DOMAIN arg = {"a", "b", "c"}
    /\ op' = "merge3"
    /\ arg' = arg
    /\ out' = [ab |-> Merge(arg.a, arg.b),
               ba |-> Merge(arg.b, arg.a),
               left |-> Merge(Merge(arg.a, arg.b), arg.c),
               right |-> Merge(arg.a, Merge(arg.b, arg.c))]

NextMoment == MergeMoments \/ MergeThree

SpecMoment == InitMoment /\ [][NextMoment]_vars

(***************************************************************************)
(* SpecArcMoment: the moment of an arc polygon and of its parts.  The arc  *)
(* polygons are rectangles and a 3-4-5 triangle, in both orientations,     *)
(* whose edges are straight or half circles on either side, and whole      *)
(* circles, one of them with an area of about EPS.                         *)
(***************************************************************************)
MaxSide == 2

Rectangle(x, y, w, t) == <<Vec(x, y), Vec(x + w, y), Vec(x + w, y + t), Vec(x, y + t)>>
Reversed(poly) == [i \in 1..Len(poly) |-> poly[Len(poly) + 1 - i]]
ChordPolygons ==
    LET ccw == {Rectangle(x, y, w, t) : x, y \in 0..(MaxSide - 1), w, t \in 1..MaxSide}
                  \cup {<<Vec(0, 0), Vec(4, 0), Vec(0, 3)>>}
    IN  ccw \cup {Reversed(poly) : poly \in ccw}

\* Every edge straight (0) or a half circle over its chord, on the right
\* (1) or on the left (-1) of the edge: the sagitta is half the chord.
ArcsOver(poly) ==
    {[i \in 1..Len(poly) |->
         ArcVertex(poly[i],
                   RMul(I2R(side[i]),
                        RMul(Half, Length(VSub(poly[(i % Len(poly)) + 1], poly[i])))))] :
        side \in [1..Len(poly) -> {-1, 0, 1}]}

MomentCircles ==
    {Disk(Vec(x, y), r) : x, y \in 0..1, r \in {Rat(1, 16000), Half, One, I2R(2)}}

ArcPolygons ==
    UNION {ArcsOver(poly) : poly \in ChordPolygons}
        \cup {FromCircle(circle) : circle \in MomentCircles}

InitArcMoment ==
    /\ op = "init"
    /\ arg \in [kind : {"arcs"}, arcs : ArcPolygons]
          \cup [kind : {"circle"}, circle : MomentCircles]
    /\ out = NoResult

\* arc_poly.moment(), with the moments it is merged from
MomentOfArcs ==
    /\ op = "init"
    /\ arg.kind = "arcs"
    /\ op' = "moment"
    /\ arg' = arg
    /\ out' = [moment |-> ArcPolygonMoment(arg.arcs),
               polygon |-> PolygonMoment(AsPolygon(arg.arcs)),
               segments |-> [i \in 1..Len(arg.arcs) |->
                                DiskSegmentMoment(ArcEdges(arg.arcs)[i].points[1],
                                                  ArcEdges(arg.arcs)[i].points[2],
                                                  ArcEdges(arg.arcs)[i].sagitta)]]

\* ArcPolygon::from_circle(circle).moment() and circle.moment()
MomentOfCircle ==
    /\ op = "init"
    /\ arg.kind = "circle"
    /\ op' = "from_circle"
    /\ arg' = arg
    /\ out' = [moment |-> ArcPolygonMoment(FromCircle(arg.circle)),
               circle |-> CircleMoment(arg.circle)]

NextArcMoment == MomentOfArcs \/ MomentOfCircle

SpecArcMoment == InitArcMoment /\ [][NextArcMoment]_vars

(***************************************************************************)
(* src/polygon/line.rs, src/polygon/mod.rs: Polygon::is_convex over the    *)
(* cyclic windows of three vertices.                                       *)
(***************************************************************************)
\* Polygon::vertices_window::<3>: the vertices chained with themselves, one
\* window per vertex; a single vertex gives no window.
VerticesWindow(poly) ==
    IF Len(poly) < 2 THEN <<>>
    ELSE [i \in 1..Len(poly) |->
             <<poly[i], poly[(i % Len(poly)) + 1], poly[((i + 1) % Len(poly)) + 1]>>]

\* (b - a).perp_dot(c - b)
Cross(w) == PerpDot(VSub(w[2], w[1]), VSub(w[3], w[2]))

\* Mutant of ConvexFrom: every cross product replaces the sign.
RECURSIVE ConvexFrom_Previous(_, _, _)
ConvexFrom_Previous(windows, k, sign) ==
    IF k > Len(windows) THEN TRUE
    ELSE IF sign /= Zero /\ RLt(RMul(sign, Cross(windows[k])), Zero) THEN FALSE
    ELSE ConvexFrom_Previous(windows, k + 1, Cross(windows[k]))

\* The loop of is_convex from window k on, with the sign found so far.
RECURSIVE ConvexFrom(_, _, _)
ConvexFrom(windows, k, sign) ==
    IF k > Len(windows) THEN TRUE
    ELSE IF sign = Zero THEN ConvexFrom(windows, k + 1, Cross(windows[k]))
    ELSE IF RLt(RMul(sign, Cross(windows[k])), Zero) THEN FALSE
    ELSE ConvexFrom(windows, k + 1, sign)

IsConvex(poly) == ConvexFrom(VerticesWindow(poly), 1, Zero)

(***************************************************************************)
(* SpecConvex: is_convex of every vertex list of up to MaxVertices points  *)
(* of a 3 x 3 grid, and of the concave polygon of the test is_convex.      *)
(***************************************************************************)
MaxVertices == 4

ConvexPoints == {Vec(x, y) : x, y \in 0..2}
TestConcave == <<Vec(0, 0), Vec(3, 0), Vec(3, 2), Vec(1, 2), Vec(1, 1), Vec(0, 1)>>
ConvexPolygons ==
    UNION {[1..n -> ConvexPoints] : n \in 0..MaxVertices} \cup {TestConcave}

InitConvex ==
    /\ op = "init"
    /\ arg \in [poly : ConvexPolygons]
    /\ out = NoResult

IsConvexOf ==
    /\ op = "init"
    /\ op' = "is_convex"
    /\ arg' = arg
    /\ out' = IsConvex(arg.poly)

NextConvex == IsConvexOf

SpecConvex == InitConvex /\ [][NextConvex]_vars

(***************************************************************************)
(* Clipping against a half-plane and against a polygon: claims C1, C2, C6. *)
(***************************************************************************)
ClipDone(kind) == op = "intersect_to" /\ arg.kind = kind

\* The point of the segment prev -> v at signed distance 0 from the plane.
BoundaryCrossing(plane, prev, v) ==
    LET dp == Distance(plane, prev)
        dv == Distance(plane, v)
    IN  Lerp(prev, v, RDiv(dp, RSub(dp, dv)))

\* What the walk is said to emit for the directed edge ending in poly[i]:
\* the crossing point if the edge changes side, then the vertex if inside.
ClaimedStep(poly, plane, i) ==
    LET prev == PrevVertex(poly, i)
        v == poly[i]
        crosses == PlaneContains(plane, prev) /= PlaneContains(plane, v)
    IN  (IF crosses THEN <<BoundaryCrossing(plane, prev, v)>> ELSE <<>>)
        \o (IF PlaneContains(plane, v) THEN <<v>> ELSE <<>>)

ClaimedClip(poly, plane) ==
    Flatten([i \in 1..Len(poly) |-> ClaimedStep(poly, plane, i)])

C1_Structure ==
    ClipDone("plane") =>
        LET claimed == ClaimedClip(arg.poly, arg.clip) IN
        IF claimed = <<>> THEN out = None ELSE out = Some(claimed)

\* C1: the half-plane clip emits, per directed edge in cyclic order, the
\* boundary crossing of an edge that changes side and then the edge's end
\* vertex if it is inside; and the square (0,0),(2,0),(2,2),(0,2) clipped by
\* the half-plane from_normal((1,0),(1,0)) is (0,0),(1,0),(1,2),(0,2).
C1_HalfPlaneClip ==
    /\ C1_Structure
    /\ (ClipDone("plane") /\ arg.poly = Square02 /\ arg.clip = PlaneX1)
          => out = Some(<<Vec(0, 0), Vec(1, 0), Vec(1, 2), Vec(0, 2)>>)

AnyVertexInside(poly, plane) ==
    \E i \in 1..Len(poly) : PlaneContains(plane, poly[i])

C6_WitnessPresent ==
    /\ ClipDone("plane")
    /\ AnyVertexInside(arg.poly, arg.clip)
    /\ \E i \in 1..Len(arg.poly) : ~PlaneContains(arg.clip, arg.poly[i])
    /\ IsSome(out)

\* The half-planes of other's edges, in edge order.
EdgePlanes(other) ==
    [k \in 1..Len(other) |-> FromEdge(Edges(other)[k][1], Edges(other)[k][2])]

\* self clipped against the first k edge half-planes of other, one after
\* the other; none once a step has produced none.
RECURSIVE SuccessiveClips(_, _, _)
SuccessiveClips(poly, other, k) ==
    IF k = 0 THEN Some(poly)
    ELSE LET before == SuccessiveClips(poly, other, k - 1) IN
         IF ~IsSome(before) THEN before
         ELSE PolygonIntersectHalfPlane(Unwrap(before), EdgePlanes(other)[k])

Centre(other) ==
    VScale(SumVec(other, Len(other)), Rat(1, Len(other)))

C2_WitnessNone ==
    /\ ClipDone("polygon")
    /\ arg.poly /= <<>>
    /\ SuccessiveClips(arg.poly, arg.clip, 1) /= None
    /\ out = None

(***************************************************************************)
(* Clipping against a disk: claims C3, C4; idempotence: claim C5.          *)
(***************************************************************************)
AllInsideDisk(poly, disk) == \A i \in 1..Len(poly) : DiskContains(disk, poly[i])
NoneInsideDisk(poly, disk) == \A i \in 1..Len(poly) : ~DiskContains(disk, poly[i])

\* The edge meets the circle in two points of the segment.
CrossesTwice(disk, edge) ==
    LET seg == CircleIntersectSegment(DiskEdge(disk), edge) IN
    seg /= None /\ IsSome(Unwrap(seg)[1]) /\ IsSome(Unwrap(seg)[2])

\* The edge meets the circle at all.
Crosses(disk, edge) ==
    LET seg == CircleIntersectSegment(DiskEdge(disk), edge) IN
    seg /= None /\ (IsSome(Unwrap(seg)[1]) \/ IsSome(Unwrap(seg)[2]))

\* The directed edges on which the boundary of the polygon leaves the disk.
Exits(poly, disk) ==
    {i \in 1..Len(poly) :
        LET e == Edges(poly)[i] IN
        \/ DiskContains(disk, e[1]) /\ ~DiskContains(disk, e[2])
        \/ ~DiskContains(disk, e[1]) /\ ~DiskContains(disk, e[2])
              /\ CrossesTwice(disk, e)}

ArcsOf(arcs) == {i \in 1..Len(arcs) : arcs[i].sagitta /= Zero}

\* C3: the disk clip replaces every maximal outside portion of the polygon
\* boundary between an exit and the next re-entry, wrapping past the start
\* of the walk included, by exactly one arc from the exit point; so a strip
\* whose two long edges each cross the circle twice yields 4 vertices.
C3_ArcPerOutsideRun ==
    ClipDone("disk") =>
        /\ Exits(arg.poly, arg.clip) /= {} =>
              /\ IsSome(out)
              /\ Cardinality(ArcsOf(Unwrap(out)))
                    = Cardinality(Exits(arg.poly, arg.clip))
        /\ (arg.poly = Strip /\ arg.clip = Disk5) =>
              /\ IsSome(out)
              /\ Len(Unwrap(out)) = 4

\* C4: with no vertex inside the disk and no edge crossing the circle, the
\* disk clip is the whole disk as the 2-vertex from_circle polygon if the
\* polygon contains the disk centre, and none otherwise.
C4_WholeDisk ==
    (/\ ClipDone("disk")
     /\ NoneInsideDisk(arg.poly, arg.clip)
     /\ \A i \in 1..Len(arg.poly) : ~Crosses(arg.clip, Edges(arg.poly)[i]))
    => IF PolygonContains(arg.poly, arg.clip.center)
       THEN out = Some(FromCircle(DiskEdge(arg.clip)))
       ELSE out = None

AllInsidePlane(poly, plane) == \A i \in 1..Len(poly) : PlaneContains(plane, poly[i])

\* The vertices further than EPS (in some coordinate) from their cyclic
\* successor, in order.
FarFromNext(poly, i) == GtEps(MaxAbs(VSub(poly[i], poly[(i % Len(poly)) + 1])))

RECURSIVE KeptFrom(_, _)
KeptFrom(poly, i) ==
    IF i > Len(poly) THEN <<>>
    ELSE (IF FarFromNext(poly, i) THEN <<poly[i]>> ELSE <<>>) \o KeptFrom(poly, i + 1)

C5_WitnessPlane ==
    /\ ClipDone("plane")
    /\ Len(arg.poly) = MaxLen
    /\ AllInsidePlane(arg.poly, arg.clip)
    /\ RLt(Zero, PolygonMoment(arg.poly).area)
    /\ out = Some(arg.poly)

(***************************************************************************)
(* Containment and the winding number: claims C7 and C8.                   *)
(***************************************************************************)
ContainsDone(kind) == op = "contains" /\ arg.shape.kind = kind

\* The shape inside a wrapper, if there is one.
Wrapped(s) ==
    CASE s.kind = "option" -> s.shape
      [] s.kind = "either" -> Some(s.shape.inner)
      [] OTHER -> Some(s)

\* C7: for every shape (disk, disk segment, half-plane, straight polygon, arc
\* polygon, Option and Either) and every point, contains is true exactly when
\* winding_number_2 is positive; None has winding number 0 and contains
\* nothing, and the other wrappers answer as the shape they hold.
C7_ContainsIffPositive ==
    op = "contains" =>
        /\ out.contains <=> out.winding_number_2 > 0
        /\ Wrapped(arg.shape) = None =>
              out.winding_number_2 = 0 /\ ~out.contains
        /\ Wrapped(arg.shape) /= None =>
              /\ out.winding_number_2
                    = WindingNumber2(Unwrap(Wrapped(arg.shape)), arg.point)
              /\ out.contains = ShapeContains(Unwrap(Wrapped(arg.shape)), arg.point)

\* The test segment_contains: the point (2.5, 4.5) under the top of the arc.
C7_Witness ==
    /\ ContainsDone("segment")
    /\ arg.shape.shape = TestArc
    /\ arg.point = <<Rat(5, 2), Rat(9, 2)>>
    /\ out.winding_number_2 = 2
    /\ out.contains

\* A point with a negative winding number is not contained.
C7_WitnessNegative ==
    /\ ContainsDone("polygon")
    /\ out.winding_number_2 < 0
    /\ ~out.contains

\* Every corner of the polygon is a left turn.  With at most four vertices
\* such a polygon is convex, counter-clockwise and does not cross itself.
TurnsLeft(poly) ==
    /\ Len(poly) \in 3..4
    /\ \A i \in 1..Len(poly) :
          RLt(Zero, PerpDot(VSub(Edges(poly)[i][2], Edges(poly)[i][1]),
                            VSub(Edges(poly)[(i % Len(poly)) + 1][2],
                                 Edges(poly)[i][2])))

\* The point is on the left of every edge / on the right of some edge.
StrictlyInside(poly, point) ==
    \A i \in 1..Len(poly) :
        RLt(Zero, PerpDot(VSub(Edges(poly)[i][2], Edges(poly)[i][1]),
                          VSub(point, Edges(poly)[i][1])))
StrictlyOutside(poly, point) ==
    \E i \in 1..Len(poly) :
        RLt(PerpDot(VSub(Edges(poly)[i][2], Edges(poly)[i][1]),
                    VSub(point, Edges(poly)[i][1])), Zero)

\* C8: for a counter-clockwise straight polygon that does not cross itself,
\* winding_number_2 is 2 at every point strictly inside and 0 at every
\* point strictly outside.
C8_PolygonWeight ==
    (ContainsDone("polygon") /\ TurnsLeft(arg.shape.shape)) =>
        /\ StrictlyInside(arg.shape.shape, arg.point) => out.winding_number_2 = 2
        /\ StrictlyOutside(arg.shape.shape, arg.point) => out.winding_number_2 = 0

\* What the crossing count gives instead: 1 inside, 0 outside.
C8_CrossingCount ==
    (ContainsDone("polygon") /\ TurnsLeft(arg.shape.shape)) =>
        /\ StrictlyInside(arg.shape.shape, arg.point) => out.winding_number_2 = 1
        /\ StrictlyOutside(arg.shape.shape, arg.point) => out.winding_number_2 = 0

\* The square (0,0), (2,0), (2,2), (0,2) at its centre (1, 1).
C8_Inside ==
    /\ ContainsDone("polygon")
    /\ arg.shape.shape = Square02
    /\ arg.point = Vec(1, 1)
    /\ out.winding_number_2 = 1

(***************************************************************************)
(* Line / LineSegment intersection: claims C9 and C10.                     *)
(***************************************************************************)
Dir(l) == VSub(l[2], l[1])
Crossing(a, b) == GtEps(RAbs(PerpDot(Dir(a), Dir(b))))
BothPresentOrAbsent == IsSome(out.ab) = IsSome(out.ba)
SamePoint == out.ab = out.ba

\* C9: for every pair A, B of Lines / LineSegments (parallel, coincident and
\* degenerate operands included) A.intersect(B) and B.intersect(A) are both
\* absent or both present with the same point.
C9_Symmetry ==
    op = "intersect" => BothPresentOrAbsent /\ SamePoint

\* The parameter along line a of the common point of the supporting lines
\* of a and b, from the normal form of b: (q + n.(...)); defined when the
\* directions cross.
ParamOn(a, b) ==
    LET n == Perp(Dir(b)) IN
    RDiv(Dot(VSub(b[1], a[1]), n), Dot(Dir(a), n))
CommonPoint(a, b) == VAdd(a[1], VScale(Dir(a), ParamOn(a, b)))
\* -1/EpsInv <= t and t <= 1 + 1/EpsInv, for t = n/d
InUnit(t) ==
    /\ (t[1] >= 0 \/ -t[1] <= t[2] \div EpsInv)
    /\ (t[1] <= t[2] \/ t[1] - t[2] <= t[2] \div EpsInv)
Accepts(k, a, b) == k = "segment" => InUnit(ParamOn(a, b))
ExpectedCrossing(ka, a, kb, b) ==
    IF Accepts(ka, a, b) /\ Accepts(kb, b, a) THEN Some(CommonPoint(a, b)) ELSE None

\* C10: when the directions satisfy |r x s| > EPS, A.intersect(B) is present
\* exactly when the parameter of the common point of the supporting lines
\* lies in [-EPS, 1 + EPS] along every operand that is a LineSegment, and the
\* point returned is that common point, which lies on both supporting lines.
C10_CrossingIntersection ==
    op = "intersect" /\ Crossing(arg.a, arg.b) =>
        /\ out.ab = ExpectedCrossing(out.ka, arg.a, out.kb, arg.b)
        /\ out.ba = ExpectedCrossing(out.kb, arg.b, out.ka, arg.a)
        /\ IsSome(out.ab) =>
              /\ LineIsNear(arg.a, Unwrap(out.ab))
              /\ LineIsNear(arg.b, Unwrap(out.ab))

\* Witnesses of C10: a segment and a line whose supporting lines cross
\* outside the segment (absent), and two segments crossing at an interior
\* point that is no grid point (present).
C10_WitnessAbsent ==
    /\ op = "intersect" /\ Crossing(arg.a, arg.b)
    /\ out.ka = "segment" /\ out.kb = "line"
    /\ out.ab = None
C10_Witness ==
    /\ op = "intersect" /\ Crossing(arg.a, arg.b)
    /\ out.ka = "segment" /\ out.kb = "segment"
    /\ IsSome(out.ab)
    /\ Unwrap(out.ab) \notin GridPoints

(***************************************************************************)
(* Lines and segments that do not cross: claims C11 and C12.               *)
(***************************************************************************)
IntersectDone(ka, kb) == op = "intersect" /\ out.ka = ka /\ out.kb = kb

\* |r x s| <= EPS
Parallel(a, b) == ~GtEps(RAbs(PerpDot(Dir(a), Dir(b))))

\* The two points of the pair coincide within EPS.
PointLike(l) == ~GtEps(MaxAbs(Dir(l)))

\* C11: two lines with |r x s| <= EPS.  Both non-degenerate: the receiver's
\* first point, which is on both lines, if the lines coincide, and none if
\* they do not.  One degenerate: the degenerate line's point exactly when it
\* is collinear with the other line.  Both degenerate: present exactly when
\* the two points coincide within EPS.
C11_ParallelLines ==
    (IntersectDone("line", "line") /\ Parallel(arg.a, arg.b)) =>
        CASE ~PointLike(arg.a) /\ ~PointLike(arg.b) ->
                IF LineIsNear(arg.b, arg.a[1]) /\ LineIsNear(arg.b, arg.a[2])
                THEN /\ out.ab = Some(arg.a[1])
                     /\ LineIsNear(arg.a, Unwrap(out.ab))
                     /\ LineIsNear(arg.b, Unwrap(out.ab))
                ELSE out.ab = None
          [] PointLike(arg.a) /\ ~PointLike(arg.b) ->
                out.ab = IF LineIsNear(arg.b, arg.a[1]) THEN Some(arg.a[1]) ELSE None
          [] ~PointLike(arg.a) /\ PointLike(arg.b) ->
                out.ab = IF LineIsNear(arg.a, arg.b[1]) THEN Some(arg.b[1]) ELSE None
          [] OTHER ->
                IsSome(out.ab) <=> ~GtEps(MaxAbs(VSub(arg.b[1], arg.a[1])))

\* The line through (0,0) and (1,1) meets the degenerate line from
\* (1 + EPS / 2, 1) to (1, 1) in that line's point.
C11_Witness ==
    /\ IntersectDone("line", "line")
    /\ arg.a = <<Vec(0, 0), Vec(1, 1)>>
    /\ arg.b = <<NearOne, Vec(1, 1)>>
    /\ out.ab = Some(NearOne)

C11_WitnessCoincident ==
    /\ IntersectDone("line", "line")
    /\ arg.a = <<Vec(0, 0), Vec(1, 0)>>
    /\ arg.b = <<Vec(3, 0), Vec(0, 0)>>
    /\ out.ab = Some(Vec(0, 0))

C11_WitnessApart ==
    /\ IntersectDone("line", "line")
    /\ arg.a = <<Vec(1, 1), NearOne>>
    /\ arg.b = <<Vec(0, 0), Vec(0, 0)>>
    /\ out.ab = None

\* The projection of the point onto the segment's direction, in units of
\* the segment's length squared: 0 at its first point, |r|^2 at its second.
Along(l, point) == Dot(VSub(point, l[1]), Dir(l))

\* The overlap of the projections of both segments onto the direction of a.
OverlapLo(a, b) == RMax(Zero, RMin(Along(a, b[1]), Along(a, b[2])))
OverlapHi(a, b) == RMin(LengthSquared(Dir(a)), RMax(Along(a, b[1]), Along(a, b[2])))
OverlapMid(a, b) ==
    VAdd(a[1], VScale(Dir(a), RDiv(RMul(RAdd(OverlapLo(a, b), OverlapHi(a, b)), Half),
                                   LengthSquared(Dir(a)))))

C12_WitnessApart ==
    /\ IntersectDone("segment", "segment")
    /\ arg.a = <<Vec(0, 0), Vec(1, 0)>>
    /\ arg.b = <<Vec(2, 0), Vec(3, 0)>>
    /\ out.ab = None

\* A single shared end point: (0,0)-(1,0) and (1,0)-(2,0) meet in (1, 0).
C12_WitnessEndPoint ==
    /\ IntersectDone("segment", "segment")
    /\ arg.a = <<Vec(0, 0), Vec(1, 0)>>
    /\ arg.b = <<Vec(1, 0), Vec(2, 0)>>
    /\ out.ab = Some(Vec(1, 0))

(***************************************************************************)
(* Circle intersections: claims C13, C14, C15 and C16.                     *)
(***************************************************************************)
CircleDone(kind) == op = "intersect" /\ arg.kind = kind

\* The distance between the centres, r1 + r2 and |r1 - r2|.
Apart(a, b) == Length(VSub(b.center, a.center))
RadiusSum(a, b) == RAdd(a.radius, b.radius)
RadiusGap(a, b) == RAbs(RSub(a.radius, b.radius))
Smaller(a, b) == IF RLt(b.radius, a.radius) THEN b ELSE a

IsLens(result) ==
    /\ result /= None
    /\ Unwrap(result).side = "left"
    /\ Len(Unwrap(result).inner) = 2

\* C13: with d the distance between the centres, the result is none if
\* d > r1 + r2, the whole disk of smaller radius if d <= |r1 - r2|, and the
\* 2-vertex lens in every other case.
C13_DiskCases ==
    CircleDone("circle") =>
        IF RLt(RadiusSum(arg.a, arg.b), Apart(arg.a, arg.b))
        THEN out.ab = None
        ELSE IF RLe(Apart(arg.a, arg.b), RadiusGap(arg.a, arg.b))
        THEN out.ab = Some(Right(Smaller(arg.a, arg.b)))
        ELSE IsLens(out.ab)

\* The same cases with the result none from d = r1 + r2 on.
C13_NoneFromTangency ==
    CircleDone("circle") =>
        IF RLe(RadiusSum(arg.a, arg.b), Apart(arg.a, arg.b))
        THEN out.ab = None
        ELSE IF RLe(Apart(arg.a, arg.b), RadiusGap(arg.a, arg.b))
        THEN out.ab = Some(Right(Smaller(arg.a, arg.b)))
        ELSE IsLens(out.ab)

\* The point of the first circle towards the centre of the second.
TangentPoint(a, b) ==
    VAdd(a.center, VScale(VSub(b.center, a.center), RDiv(a.radius, Apart(a, b))))

\* C14: two externally tangent disks (d = r1 + r2, r1, r2 > 0) intersect in
\* the 2-vertex arc polygon with both vertices at the tangent point and both
\* sagittas 0.
C14_TangentDisks ==
    (/\ CircleDone("circle")
     /\ Apart(arg.a, arg.b) = RadiusSum(arg.a, arg.b)
     /\ RLt(Zero, arg.a.radius) /\ RLt(Zero, arg.b.radius)) =>
        out.ab = Some(Left(<<ArcVertex(TangentPoint(arg.a, arg.b), Zero),
                             ArcVertex(TangentPoint(arg.a, arg.b), Zero)>>))

\* The disks of the test intersect_disk_tangent, scaled: (0,0) r = 1 and
\* (2,0) r = 1.
C14_TestDisks ==
    /\ CircleDone("circle")
    /\ arg.a = Disk(Vec(0, 0), One)
    /\ arg.b = Disk(Vec(2, 0), One)
    /\ out.ab = None

\* Two results denote the same region.
SameRegion(x, y) ==
    \/ x = None /\ y = None
    \/ /\ x /= None /\ y /= None
       /\ Unwrap(x).side = "right" /\ Unwrap(y).side = "right"
       /\ Unwrap(x).inner = Unwrap(y).inner
    \/ /\ IsLens(x) /\ IsLens(y)
       /\ \/ Unwrap(y).inner = Unwrap(x).inner
          \/ Unwrap(y).inner = <<Unwrap(x).inner[2], Unwrap(x).inner[1]>>

C15_WitnessNested ==
    /\ CircleDone("circle")
    /\ arg.a = Disk(Vec(0, 0), I2R(2))
    /\ arg.b = Disk(Vec(1, 0), One)
    /\ out.ab = Some(Right(arg.b))
    /\ out.ba = Some(Right(arg.b))

\* The signed distance from the boundary to the centre, positive when the
\* centre is outside the half-plane.
Apothem(circle, plane) == RNeg(Distance(plane, circle.center))

\* C16: none when apothem > radius; the whole circle when
\* radius + apothem <= EPS; otherwise the segment with sagitta
\* radius - apothem, which at apothem = radius has coincident end points and
\* sagitta zero.
C16_HalfPlaneCases ==
    CircleDone("plane") =>
        IF RLt(arg.a.radius, Apothem(arg.a, arg.b))
        THEN out.ab = None
        ELSE IF ~GtEps(RAdd(arg.a.radius, Apothem(arg.a, arg.b)))
        THEN out.ab = Some(Right(arg.a))
        ELSE /\ out.ab /= None
             /\ Unwrap(out.ab).side = "left"
             /\ Unwrap(out.ab).inner.sagitta = RSub(arg.a.radius, Apothem(arg.a, arg.b))
             /\ Apothem(arg.a, arg.b) = arg.a.radius =>
                   /\ Unwrap(out.ab).inner.points[1] = Unwrap(out.ab).inner.points[2]
                   /\ Unwrap(out.ab).inner.sagitta = Zero

\* The same cases with the whole circle only for radius + apothem < 0.
C16_WholeOnlyStrictlyInside ==
    CircleDone("plane") =>
        IF RLt(arg.a.radius, Apothem(arg.a, arg.b))
        THEN out.ab = None
        ELSE IF RLt(RAdd(arg.a.radius, Apothem(arg.a, arg.b)), Zero)
        THEN out.ab = Some(Right(arg.a))
        ELSE /\ out.ab /= None
             /\ Unwrap(out.ab).side = "left"
             /\ Unwrap(out.ab).inner.sagitta = RSub(arg.a.radius, Apothem(arg.a, arg.b))
             /\ Apothem(arg.a, arg.b) = arg.a.radius =>
                   /\ Unwrap(out.ab).inner.points[1] = Unwrap(out.ab).inner.points[2]
                   /\ Unwrap(out.ab).inner.sagitta = Zero

\* The circle (0,0) r = 1 touching the boundary x = 1 from inside.
C16_TouchingInside ==
    /\ CircleDone("plane")
    /\ arg.a = Disk(Vec(0, 0), One)
    /\ arg.b = FromNormal(Vec(1, 0), Vec(-1, 0))
    /\ out.ab = Some(Left(Arc(Vec(1, 0), Vec(1, 0), I2R(2))))

(***************************************************************************)
(* Half-plane constructors: claims C17, C18 and C19.                       *)
(***************************************************************************)
\* C17: for a half-plane with unit normal, distance(p) = dot(p, normal) -
\* offset; the point given to from_normal has distance 0; a point displaced
\* along +normal has a positive distance and is not contained, one displaced
\* along -normal has a negative distance and is contained, and contains(p)
\* is true exactly when distance(p) <= 0, boundary points included.
C17_DistanceSign ==
    op = "from_normal" =>
        /\ out.distance = RSub(Dot(arg.probe, arg.normal), out.plane.offset)
        /\ Distance(out.plane, arg.point) = Zero
        /\ RLt(Zero, Dot(VSub(arg.probe, arg.point), arg.normal)) =>
              RLt(Zero, out.distance) /\ ~out.contains
        /\ RLt(Dot(VSub(arg.probe, arg.point), arg.normal), Zero) =>
              RLt(out.distance, Zero) /\ out.contains
        /\ out.contains <=> RLe(out.distance, Zero)

\* The same with the sides exchanged: contained exactly when distance >= 0.
C17_PositiveInside ==
    op = "from_normal" =>
        /\ out.distance = RSub(Dot(arg.probe, arg.normal), out.plane.offset)
        /\ Distance(out.plane, arg.point) = Zero
        /\ RLt(Zero, Dot(VSub(arg.probe, arg.point), arg.normal)) =>
              RLt(Zero, out.distance)
        /\ RLt(Dot(VSub(arg.probe, arg.point), arg.normal), Zero) =>
              RLt(out.distance, Zero)
        /\ out.contains <=> RLe(Zero, out.distance)

\* The test from_normal: the half-plane through (2, 3) with normal (1, 0),
\* probed at (3, 3).
C17_OutsidePoint ==
    /\ op = "from_normal"
    /\ arg.point = Vec(2, 3) /\ arg.normal = Vec(1, 0) /\ arg.probe = Vec(3, 3)
    /\ out.distance = One
    /\ out.contains

\* C18: for a non-degenerate edge from a to b, from_edge gives a half-plane
\* with unit normal whose boundary passes through a and b, that contains
\* every point strictly on the left of a -> b and no point strictly on the
\* right.
C18_FromEdge ==
    op = "from_edge" =>
        /\ LengthSquared(out.plane.normal) = One
        /\ Distance(out.plane, arg.edge[1]) = Zero
        /\ Distance(out.plane, arg.edge[2]) = Zero
        /\ RLt(Zero, PerpDot(VSub(arg.edge[2], arg.edge[1]),
                             VSub(arg.probe, arg.edge[1]))) => out.contains
        /\ RLt(PerpDot(VSub(arg.edge[2], arg.edge[1]),
                       VSub(arg.probe, arg.edge[1])), Zero) => ~out.contains

\* The vertical edge of the test from_edge, (0,0) -> (0,1): a point on its
\* left is inside.
C18_Witness ==
    /\ op = "from_edge"
    /\ arg.edge = <<Vec(0, 0), Vec(0, 1)>>
    /\ arg.probe = Vec(-1, 1)
    /\ out.plane.normal = Vec(-1, 0)
    /\ out.contains

C18_WitnessRight ==
    /\ op = "from_edge"
    /\ arg.edge = <<Vec(0, 0), Vec(0, 1)>>
    /\ arg.probe = Vec(1, 1)
    /\ ~out.contains

\* C19: for a half-plane with unit normal both points of edge() are on the
\* boundary, and from_edge of them has the same normal and the same offset.
C19_EdgeRoundTrip ==
    op = "edge" =>
        /\ Distance([normal |-> arg.normal, offset |-> arg.offset], out.edge[1]) = Zero
        /\ Distance([normal |-> arg.normal, offset |-> arg.offset], out.edge[2]) = Zero
        /\ out.plane.normal = arg.normal
        /\ out.plane.offset = arg.offset

\* A half-plane with an oblique normal and a negative offset.
C19_Witness ==
    /\ op = "edge"
    /\ arg.normal = <<Rat(3, 5), Rat(4, 5)>>
    /\ arg.offset = I2R(-1)
    /\ out.edge = << <<Rat(-3, 5), Rat(-4, 5)>>, <<Rat(1, 5), Rat(-7, 5)>> >>
    /\ out.plane = [normal |-> arg.normal, offset |-> arg.offset]

(***************************************************************************)
(* Moment::merge: claim C20.                                               *)
(***************************************************************************)
AreaSum == RAdd(arg.a.area, arg.b.area)
\* a.centroid * a.area + b.centroid * b.area
FirstMoments ==
    VAdd(VScale(arg.a.centroid, arg.a.area), VScale(arg.b.centroid, arg.b.area))
\* The result has the summed area and the weighted centroid; with a
\* zero-area operand that is the other operand.
Weighted ==
    /\ out.area = AreaSum
    /\ VScale(out.centroid, out.area) = FirstMoments
    /\ arg.b.area = Zero => out = arg.a
    /\ arg.a.area = Zero => out = arg.b

C20_Witness ==
    /\ op = "merge"
    /\ arg.a = Moment(One, Vec(1, 2))
    /\ arg.b = Moment(I2R(2), Vec(3, 4))
    /\ out = Moment(I2R(3), <<Rat(7, 3), Rat(10, 3)>>)

C20_WitnessSmall ==
    /\ op = "merge"
    /\ arg.a.area = Rat(1, 2 * EpsInv)
    /\ arg.b.area = Rat(1, EpsInv)
    /\ arg.a.centroid = Vec(3, 0) /\ arg.b.centroid = Vec(0, 3)
    /\ out = Moment(Rat(3, 2 * EpsInv), Vec(1, 2))

(***************************************************************************)
(* Order of merging: claim C21.                                            *)
(***************************************************************************)
\* TEST_EPS of the tests, 1e-6 = 100 * EPS
TestEps == Rat(100, EpsInv)
Near(x, y) == RLe(RAbs(RSub(x, y)), TestEps)
\* abs_diff_eq of two moments: area and both coordinates of the centroid
MomentNear(m, n) ==
    /\ Near(m.area, n.area)
    /\ Near(m.centroid[1], n.centroid[1])
    /\ Near(m.centroid[2], n.centroid[2])

C21_PartialSumDropped ==
    /\ op = "merge3"
    /\ arg.a = Moment(Rat(1, 2 * EpsInv), Vec(1, 1))
    /\ arg.b = Moment(Rat(1, 2 * EpsInv), Vec(1, 1))
    /\ arg.c = Moment(Zero, Vec(1, 1))
    /\ out.left = Moment(Rat(1, EpsInv), Vec(1, 1))
    /\ out.right = MomentDefault

RECURSIVE AreaUpTo(_)
AreaUpTo(k) ==
    IF k = 0 THEN out.polygon.area ELSE RAdd(AreaUpTo(k - 1), out.segments[k].area)
\* centroid * area, summed over the chord polygon and all segments
RECURSIVE FirstMomentUpTo(_)
FirstMomentUpTo(k) ==
    IF k = 0 THEN VScale(out.polygon.centroid, out.polygon.area)
    ELSE VAdd(FirstMomentUpTo(k - 1),
              VScale(out.segments[k].centroid, out.segments[k].area))
NearEps(x, y) == ~GtEps(RAbs(RSub(x, y)))
\* The area-weighted mean of the centroids of the parts
MeanCentroid == VScale(FirstMomentUpTo(Len(out.segments)), RInv(AreaUpTo(Len(out.segments))))

NoSmallSum == \A k \in 1..Len(out.segments) : AreaUpTo(k) = Zero \/ ~LtEps(AreaUpTo(k))

C22_WitnessCircle ==
    /\ op = "from_circle"
    /\ arg.circle = Disk(Vec(1, 1), I2R(2))
    /\ out.moment = Moment(RMul(Pi, I2R(4)), Vec(1, 1))

\* A circle of radius 1/16000: each half is below EPS and is dropped.
C22_SmallCircle ==
    /\ op = "from_circle"
    /\ arg.circle = Disk(Vec(1, 1), Rat(1, 16000))
    /\ ~LtEps(out.circle.area)
    /\ out.moment = MomentDefault

(***************************************************************************)
(* Convexity: claim C23.                                                   *)
(***************************************************************************)
\* The cross product of the edges at the vertex after poly[i], cyclically.
TurnAt(poly, i) ==
    PerpDot(VSub(poly[(i % Len(poly)) + 1], poly[i]),
            VSub(poly[((i + 1) % Len(poly)) + 1], poly[(i % Len(poly)) + 1]))
OppositeTurns(poly) ==
    \E i, j \in 1..Len(poly) :
        RLt(Zero, TurnAt(poly, i)) /\ RLt(TurnAt(poly, j), Zero)

\* C23: is_convex is false exactly when two cross products of consecutive
\* edge vectors, over all cyclic vertex triples, have strictly opposite
\* signs, whatever zero cross products lie between them; polygons of 0, 1
\* or 2 vertices are convex.
C23_IsConvex ==
    op = "is_convex" =>
        /\ out = ~OppositeTurns(arg.poly)
        /\ Len(arg.poly) <= 2 => out

\* The concave polygon of the test.
C23_Witness ==
    /\ op = "is_convex"
    /\ arg.poly = TestConcave
    /\ ~out

\* A triangle with a vertex in the middle of an edge: a zero cross product
\* among left turns.
C23_WitnessStraight ==
    /\ op = "is_convex"
    /\ arg.poly = <<Vec(0, 0), Vec(1, 0), Vec(2, 0), Vec(1, 1)>>
    /\ TurnAt(arg.poly, 1) = Zero
    /\ out

\* A left turn, a zero cross product and a right turn, in this order: the
\* zero does not hide the change of sign.
C23_WitnessZigzag ==
    /\ op = "is_convex"
    /\ arg.poly = <<Vec(0, 0), Vec(1, 0), Vec(1, 1), Vec(1, 0)>>
    /\ RLt(Zero, TurnAt(arg.poly, 1))
    /\ TurnAt(arg.poly, 2) = Zero
    /\ RLt(TurnAt(arg.poly, 3), Zero)
    /\ ~out

C23_WitnessLine ==
    /\ op = "is_convex"
    /\ arg.poly = <<Vec(0, 0), Vec(1, 1)>>
    /\ out

(***************************************************************************)
(* Repeated vertices in the result of a clip: claim C24.                   *)
(***************************************************************************)
\* No vertex is within EPS of the next one, the first following the last.
Deduplicated(points) ==
    Len(points) >= 2 =>
        \A i \in 1..Len(points) :
            GtEps(MaxAbs(VSub(points[i], points[(i % Len(points)) + 1])))

\* C24: the polygon returned by the clip against a half-plane and the arc
\* polygon returned by the clip against a disk have no two cyclically
\* consecutive vertices closer than EPS; a vertex of the input on the
\* boundary is not emitted again as a crossing point.
C24_Deduplicated ==
    op = "intersect_to" /\ IsSome(out) =>
        /\ arg.kind = "plane" => Deduplicated(Unwrap(out))
        /\ arg.kind = "disk" => Deduplicated(AsPolygon(Unwrap(out)))

\* What holds: the clip against a disk.
C24_DiskDeduplicated ==
    op = "intersect_to" /\ IsSome(out) /\ arg.kind = "disk" =>
        Deduplicated(AsPolygon(Unwrap(out)))

\* The square (0,0) .. (2,2) against the half-plane with the boundary
\* x = 2 and the square outside: its two vertices on the boundary come out
\* twice, as crossing points and as vertices.
C24_BoundaryVertexTwice ==
    /\ op = "intersect_to"
    /\ arg.kind = "plane"
    /\ arg.poly = Square02
    /\ arg.clip = FromNormal(Vec(2, 0), Vec(1, 0))
    /\ out = Some(<<Vec(2, 0), Vec(2, 0), Vec(2, 2), Vec(2, 2)>>)

(***************************************************************************)
(* Degenerate crossings of the half-plane's boundary: claim C25.           *)
(***************************************************************************)
\* The edge into poly[i] has its ends on different sides of the boundary.
CrossesBoundary(poly, plane, i) ==
    PlaneContains(plane, PrevVertex(poly, i)) /= PlaneContains(plane, poly[i])
\* The intersection of the edge with the boundary is degenerate: the edge
\* is parallel to the boundary within EPS, or has no length.
DegenerateCut(poly, plane, i) ==
    ~GtEps(RAbs(PerpDot(VSub(poly[i], PrevVertex(poly, i)),
                        VSub(PlaneEdge(plane)[2], PlaneEdge(plane)[1]))))
\* The end of the edge that is nearer to the boundary.
NearerEnd(poly, plane, i) ==
    IF RLe(RAbs(Distance(plane, PrevVertex(poly, i))), RAbs(Distance(plane, poly[i])))
    THEN PrevVertex(poly, i) ELSE poly[i]
\* The point the walk emits for the crossing edge into poly[i].
EmittedCut(poly, plane, i) == ClipStep(poly, plane, i)[1]

\* C25: Polygon.intersect_to(HalfPlane) returns a polygon or none and never
\* panics; for an edge classified as crossing whose intersection with the
\* boundary is degenerate, the emitted point is the nearer end of the edge.
C25_DegenerateCrossing ==
    op = "intersect_to" /\ arg.kind = "plane" =>
        /\ out /= Panic
        /\ \A i \in 1..Len(arg.poly) :
              CrossesBoundary(arg.poly, arg.clip, i) /\ DegenerateCut(arg.poly, arg.clip, i) =>
                  EmittedCut(arg.poly, arg.clip, i) = NearerEnd(arg.poly, arg.clip, i)

\* What holds: no panic.
C25_NoPanic ==
    op = "intersect_to" /\ arg.kind = "plane" => out /= Panic

\* The edge from (1 - EPS/2, 2) to (1, 0) against the boundary x = 1: the
\* emitted point is the middle of the edge, (1 - EPS/4, 1).
C25_MiddleOfEdge ==
    /\ op = "intersect_to"
    /\ arg.kind = "plane"
    /\ arg.poly = NearParallel
    /\ arg.clip = PlaneX1
    /\ CrossesBoundary(arg.poly, arg.clip, 1) /\ DegenerateCut(arg.poly, arg.clip, 1)
    /\ IsSome(out)
    /\ Unwrap(out)[1] = <<Rat(4 * EpsInv - 1, 4 * EpsInv), One>>

(***************************************************************************)
(* The winding number of a disk segment: claim C26.                        *)
(***************************************************************************)
\* Half the chord, the radius of the circle of the arc and its centre, on
\* the right of points.0 -> points.1 at the distance sagitta - radius from
\* the chord (on the left for a negative sagitta).
HalfChord(arc) == RMul(Half, Length(VSub(arc.points[2], arc.points[1])))
ArcRadius(arc) ==
    RDiv(RAdd(RMul(HalfChord(arc), HalfChord(arc)), RMul(arc.sagitta, arc.sagitta)),
         RMul(I2R(2), RAbs(arc.sagitta)))
RightOf(arc) == VScale(VNeg(Perp(VSub(arc.points[2], arc.points[1]))),
                       RInv(RMul(I2R(2), HalfChord(arc))))
ArcCentre(arc) ==
    VAdd(VScale(VAdd(arc.points[1], arc.points[2]), Half),
         VScale(RightOf(arc),
                RSub(arc.sagitta, RMul(I2R(Signum(arc.sagitta)), ArcRadius(arc)))))
\* The middle of the arc
ArcApex(arc) ==
    VAdd(VScale(VAdd(arc.points[1], arc.points[2]), Half),
         VScale(RightOf(arc), arc.sagitta))
WithinArcCircle(arc, p) ==
    RLe(LengthSquared(VSub(p, ArcCentre(arc))), RMul(ArcRadius(arc), ArcRadius(arc)))
\* Strictly on the side of the chord the arc is on.
BulgeSide(arc, p) ==
    IF RLt(Zero, arc.sagitta)
    THEN RLt(PerpDot(VSub(arc.points[2], arc.points[1]), VSub(p, arc.points[1])), Zero)
    ELSE RLt(Zero, PerpDot(VSub(arc.points[2], arc.points[1]), VSub(p, arc.points[1])))

\* C26: the winding number of a disk segment is 2 * sign(sagitta) at a
\* point within the circle of the arc and strictly on the side of the chord
\* where the arc is (the right of points.0 -> points.1 for a positive
\* sagitta, the left for a negative one), and 0 elsewhere; it is 0
\* everywhere when |sagitta| < EPS.  The circle passes through both ends of
\* the chord and the middle of the arc.
C26_SegmentWinding ==
    ContainsDone("segment") /\ arg.shape.shape.points[1] /= arg.shape.shape.points[2] =>
        IF LtEps(RAbs(arg.shape.shape.sagitta)) THEN out.winding_number_2 = 0
        ELSE /\ \A q \in {arg.shape.shape.points[1], arg.shape.shape.points[2],
                          ArcApex(arg.shape.shape)} :
                    LengthSquared(VSub(q, ArcCentre(arg.shape.shape)))
                        = RMul(ArcRadius(arg.shape.shape), ArcRadius(arg.shape.shape))
             /\ out.winding_number_2 =
                    IF /\ WithinArcCircle(arg.shape.shape, arg.point)
                       /\ BulgeSide(arg.shape.shape, arg.point)
                    THEN 2 * Signum(arg.shape.shape.sagitta) ELSE 0

\* The segment of the test segment_contains at a point under the arc.
C26_Witness ==
    /\ ContainsDone("segment")
    /\ arg.shape.shape = TestArc
    /\ arg.point = <<Rat(5, 2), Rat(9, 2)>>
    /\ out.winding_number_2 = 2

\* A negative sagitta: the arc is on the left of the chord, the winding
\* number is -2.
C26_WitnessNegative ==
    /\ ContainsDone("segment")
    /\ arg.shape.shape = Arc(Vec(2, 0), Vec(-2, 0), I2R(-1))
    /\ arg.point = <<Zero, Rat(-1, 2)>>
    /\ out.winding_number_2 = -2

\* A point of the chord, and a sagitta below EPS.
C26_WitnessChord ==
    /\ ContainsDone("segment")
    /\ arg.shape.shape = TestArc
    /\ arg.point = Vec(2, 1)
    /\ out.winding_number_2 = 0

C26_WitnessFlat ==
    /\ ContainsDone("segment")
    /\ arg.shape.shape = Arc(Vec(2, 0), Vec(-2, 0), Rat(1, 2 * EpsInv))
    /\ arg.point = Vec(0, 0)
    /\ out.winding_number_2 = 0

(***************************************************************************)
(* The vertices of the lens: claim C27.                                    *)
(***************************************************************************)
OnCircle(circle, p) ==
    LengthSquared(VSub(p, circle.center)) = RMul(circle.radius, circle.radius)
\* 0.5 * (d + (r1^2 - r2^2) / d)
Apothem1(a, b) ==
    RMul(Half, RAdd(Apart(a, b),
                    RDiv(RSub(RMul(a.radius, a.radius), RMul(b.radius, b.radius)),
                         Apart(a, b))))
LensOf(result) == Unwrap(result).inner

\* C27: for |r1 - r2| < d < r1 + r2 the lens has two vertices, each on both
\* circles; the middle of the chord is center1 + dir * apothem1 with
\* apothem1 = 0.5 * (d + (r1^2 - r2^2) / d), the half chord squared is
\* r1^2 - apothem1^2, the first vertex has the sagitta r1 - apothem1 and
\* the second r2 - apothem2 with apothem2 = d - apothem1.
C27_LensVertices ==
    CircleDone("circle")
      /\ RLt(RadiusGap(arg.a, arg.b), Apart(arg.a, arg.b))
      /\ RLt(Apart(arg.a, arg.b), RadiusSum(arg.a, arg.b)) =>
        /\ IsLens(out.ab)
        /\ \A i \in 1..2 :
              /\ OnCircle(arg.a, LensOf(out.ab)[i].point)
              /\ OnCircle(arg.b, LensOf(out.ab)[i].point)
        /\ VScale(VAdd(LensOf(out.ab)[1].point, LensOf(out.ab)[2].point), Half)
              = VAdd(arg.a.center,
                     VScale(VSub(arg.b.center, arg.a.center),
                            RDiv(Apothem1(arg.a, arg.b), Apart(arg.a, arg.b))))
        /\ RMul(Rat(1, 4),
                LengthSquared(VSub(LensOf(out.ab)[2].point, LensOf(out.ab)[1].point)))
              = RSub(RMul(arg.a.radius, arg.a.radius),
                     RMul(Apothem1(arg.a, arg.b), Apothem1(arg.a, arg.b)))
        /\ LensOf(out.ab)[1].sagitta = RSub(arg.a.radius, Apothem1(arg.a, arg.b))
        /\ LensOf(out.ab)[2].sagitta
              = RSub(arg.b.radius, RSub(Apart(arg.a, arg.b), Apothem1(arg.a, arg.b)))

\* The centres (0,0) and (3,0) of the test intersect_disk_intersecting with
\* the radius 5/2, for which the half chord is rational: 2.
C27_Witness ==
    /\ CircleDone("circle")
    /\ arg.a = Disk(Vec(0, 0), Rat(5, 2))
    /\ arg.b = Disk(Vec(3, 0), Rat(5, 2))
    /\ out.ab = Some(Left(<< ArcVertex(<<Rat(3, 2), I2R(-2)>>, One),
                            ArcVertex(<<Rat(3, 2), I2R(2)>>, One) >>))

\* Unequal radii with the chord beyond the centre of the larger circle: a
\* negative apothem, and a sagitta larger than the radius.
C27_WitnessNegativeApothem ==
    /\ CircleDone("circle")
    /\ arg.a.radius = Rat(13, 2) /\ arg.b.radius = Rat(15, 2)
    /\ IsLens(out.ab)
    /\ RLt(Apothem1(arg.a, arg.b), Zero)
    /\ RLt(arg.a.radius, LensOf(out.ab)[1].sagitta)

(***************************************************************************)
(* Where the vertices of a clipped polygon lie: claim C28.                 *)
(***************************************************************************)
\* x lies between a and b.
Between(a, b, x) == RLe(RMin(a, b), x) /\ RLe(x, RMax(a, b))
\* q is a point of the segment from a to b: on its line, and between its
\* ends in both coordinates.
OnEdge(a, b, q) ==
    /\ PerpDot(VSub(b, a), VSub(q, a)) = Zero
    /\ Between(a[1], b[1], q[1])
    /\ Between(a[2], b[2], q[2])
\* q is a vertex of the polygon or a point of one of its edges.
OnBoundary(poly, q) ==
    \E i \in 1..Len(poly) : q = poly[i] \/ OnEdge(PrevVertex(poly, i), poly[i], q)

\* C28: every vertex of the polygon returned by the clip against a
\* half-plane has a distance of at most EPS from the half-plane (distance
\* <= 0 up to EPS) and is a vertex or a point of an edge of the input, and
\* the result has at most 2n vertices for n input vertices.
C28_ClippedVertices ==
    op = "intersect_to" /\ arg.kind = "plane" /\ IsSome(out) =>
        /\ \A k \in 1..Len(Unwrap(out)) :
              /\ ~GtEps(Distance(arg.clip, Unwrap(out)[k]))
              /\ OnBoundary(arg.poly, Unwrap(out)[k])
        /\ Len(Unwrap(out)) <= 2 * Len(arg.poly)

\* The same on the side the code keeps: distance >= 0 up to EPS.
C28_KeptSide ==
    op = "intersect_to" /\ arg.kind = "plane" /\ IsSome(out) =>
        /\ \A k \in 1..Len(Unwrap(out)) :
              /\ ~GtEps(RNeg(Distance(arg.clip, Unwrap(out)[k])))
              /\ OnBoundary(arg.poly, Unwrap(out)[k])
        /\ Len(Unwrap(out)) <= 2 * Len(arg.poly)

\* The clip of the test intersect_plane: the vertices (2,0) and (2,2) of
\* the result have the distance 1.
C28_PositiveDistance ==
    /\ op = "intersect_to"
    /\ arg.kind = "plane"
    /\ arg.poly = Square02
    /\ arg.clip = PlaneX1
    /\ out = Some(<<Vec(1, 0), Vec(2, 0), Vec(2, 2), Vec(1, 2)>>)
    /\ Distance(arg.clip, Vec(2, 0)) = One

(***************************************************************************)
(* SpecPolygonMoment: the moment of a straight polygon and of the same     *)
(* vertex list in the opposite order.                                      *)
(***************************************************************************)
MaxGrid == 3

MomentPoints == {Vec(x, y) : x, y \in 0..MaxGrid}
\* The square of the test square_clump.
TestSquare == <<Vec(0, 0), Vec(3, 0), Vec(3, 2), Vec(0, 2)>>
\* Triangles in both orientations (the degenerate ones included), and
\* rectangles in both orientations.
MomentPolygons ==
    LET ccw == {Rectangle(x, y, w, t) : x, y \in 0..1, w, t \in 1..(MaxGrid - 1)}
                  \cup {TestSquare}
    IN  [1..3 -> MomentPoints] \cup ccw \cup {Reversed(poly) : poly \in ccw}

InitPolygonMoment ==
    /\ op = "init"
    /\ arg \in [poly : MomentPolygons]
    /\ out = NoResult

\* poly.moment(), and the moment() of the polygon built from the same
\* vertices in the opposite order.
MomentOfPolygon ==
    /\ op = "init"
    /\ op' = "moment"
    /\ arg' = arg
    /\ out' = [moment |-> PolygonMoment(arg.poly),
               reversed |-> PolygonMoment(Reversed(arg.poly))]

NextPolygonMoment == MomentOfPolygon

SpecPolygonMoment == InitPolygonMoment /\ [][NextPolygonMoment]_vars

\* The centroid of the region of a triangle or a rectangle: the mean of
\* its vertices.
VertexMean(poly) == VScale(SumVec(poly, Len(poly)), Rat(1, Len(poly)))
\* Twice the signed area of the vertex list: positive when it runs
\* counter-clockwise.
SignedArea2(poly) ==
    SumRat([i \in 1..Len(poly) |-> PerpDot(Edges(poly)[i][1], Edges(poly)[i][2])], Len(poly))

\* C29: the moment of a polygon with area >= EPS does not depend on the
\* orientation of the vertex list: the reversed list has the same area and
\* the same centroid, and the centroid is the centroid of the region.
C29_OrientationIndependent ==
    (op = "moment" /\ ~LtEps(out.moment.area))
        => /\ out.reversed.area = out.moment.area
           /\ out.reversed.centroid = out.moment.centroid
           /\ out.moment.centroid = VertexMean(arg.poly)

\* What the code computes: the area is the same in both orientations, the
\* centroid of the reversed list is the negated one, and it is the centroid
\* of the region for the counter-clockwise list only.
C29_CentroidFollowsOrientation ==
    (op = "moment" /\ ~LtEps(out.moment.area))
        => /\ out.reversed.area = out.moment.area
           /\ out.reversed.centroid = VNeg(out.moment.centroid)
           /\ out.moment.centroid =
                  IF RLt(Zero, SignedArea2(arg.poly))
                  THEN VertexMean(arg.poly)
                  ELSE VNeg(VertexMean(arg.poly))

\* The square of square_clump: area 6, centroid (3/2, 1).
C29_TestSquare ==
    /\ op = "moment"
    /\ arg.poly = TestSquare
    /\ out.moment = [area |-> I2R(6), centroid |-> <<Rat(3, 2), One>>]

\* The same square clockwise: area 6, centroid (-3/2, -1).
C29_Clockwise ==
    /\ op = "moment"
    /\ arg.poly = Reversed(TestSquare)
    /\ out.moment = [area |-> I2R(6), centroid |-> <<Rat(-3, 2), RNeg(One)>>]
    /\ out.reversed = [area |-> I2R(6), centroid |-> <<Rat(3, 2), One>>]

\* The arc polygons that stand for a whole region, each with the disks whose
\* common part it is.
WholeRegions == {<<FromCircle(Disk2), {Disk2}>>, <<TestLens, {LensLeft, LensRight}>>}
\* The point is further than EPS from the circle: with d the distance from
\* the centre, |d - r| <= EPS would give |d^2 - r^2| <= EPS * (2r + 1).
AwayFromCircle(disk, point) ==
    RLt(RMul(Rat(1, EpsInv), RAdd(RMul(I2R(2), disk.radius), One)),
        RAbs(RSub(LengthSquared(VSub(point, disk.center)),
                  RMul(disk.radius, disk.radius))))
InAllDisks(disks, point) == \A disk \in disks : DiskContains(disk, point)
\* The point is on the line through the two vertices of the arc polygon.
OnChordLine(arcs, point) ==
    PerpDot(VSub(arcs[2].point, arcs[1].point), VSub(point, arcs[1].point)) = Zero

\* C30: an arc polygon that stands for a whole disk (from_circle) or for the
\* lens of two disks contains every point of the region further than EPS
\* from the circles, the points of the chord between its two vertices
\* included: contains agrees with the disk, or with both disks.
C30_WholeRegion ==
    ContainsDone("arcs") =>
        \A region \in WholeRegions :
            (/\ arg.shape.shape = region[1]
             /\ \A disk \in region[2] : AwayFromCircle(disk, arg.point))
                => out.contains = InAllDisks(region[2], arg.point)

\* What the code computes: off the line of the chord contains agrees with
\* the disks, and no point of that line is contained.
C30_OffChord ==
    ContainsDone("arcs") =>
        \A region \in WholeRegions :
            (/\ arg.shape.shape = region[1]
             /\ \A disk \in region[2] : AwayFromCircle(disk, arg.point))
                => out.contains = (/\ InAllDisks(region[2], arg.point)
                                   /\ ~OnChordLine(region[1], arg.point))

\* The centre (1, 1) of the disk of radius 2: in the disk, and not in the
\* arc polygon from_circle builds for it.
C30_Centre ==
    /\ ContainsDone("arcs")
    /\ arg.shape.shape = FromCircle(Disk2)
    /\ arg.point = Vec(1, 1)
    /\ DiskContains(Disk2, arg.point)
    /\ out.winding_number_2 = 0
    /\ ~out.contains

\* The middle (3/2, 0) of the chord of the lens: in both disks, and not in
\* the lens Circle::intersect(Circle) returns for them.
C30_LensChord ==
    /\ ContainsDone("arcs")
    /\ CircleIntersectCircle(LensLeft, LensRight) = Some(Left(arg.shape.shape))
    /\ arg.point = <<Rat(3, 2), Zero>>
    /\ InAllDisks({LensLeft, LensRight}, arg.point)
    /\ ~out.contains

\* A point off the chord, (2, 1/2) of the lens: contained.
C30_LensInside ==
    /\ ContainsDone("arcs")
    /\ arg.shape.shape = TestLens
    /\ arg.point = <<I2R(2), Half>>
    /\ out.contains

====
